---- MODULE Spec2Model ----
(***************************************************************************)
(* Task lifecycle of the AIFlow platform: the API gateway (ingress and     *)
(* internal-callback controller, ICC), the task scheduler (dispatcher) and *)
(* the model forwarder (worker), bound together by Redis (TSS) and         *)
(* RabbitMQ (TQ).  Every await of the source on Redis, RabbitMQ or HTTP is *)
(* a point where the other coroutines and processes may take steps, so     *)
(* each handler is cut into one action per such await.                     *)
(***************************************************************************)
EXTENDS Naturals, Integers, Sequences, FiniteSets, TLC

\* ---------------------------------------------------------------- bounds
MaxRetries == 1
TaskMaxWaitTime == 1
CallbackMaxRetries == 1
MaxHandlers == 2
MaxRequests == 2
MaxPostTimeouts == 1
MaxCallbackTimeouts == 1
MaxPending == 3
MaxTokens == 4
MaxItems == 2
MaxPasses == 2
\* settings.scheduler_task_max_count
SchedulerTaskMaxCount == 2
\* RabbitMQClient.consume_tasks: set_qos(prefetch_count=1)
PrefetchCount == 1
\* _execute_user_callback(max_retries: int = 3)
UserCallbackMaxRetries == 3
HeuristicMinLen == 512

MaxNow == TaskMaxWaitTime + 1
MaxPub == MaxRetries + 2
MaxBg == MaxRequests

Tasks == {"t1", "t2"}
Forwarders == {"w1", "w2", "w3"}
SubmitTasks == {"t1"}
Slots == 1..MaxHandlers
RSlots == 1..MaxRequests
BSlots == 1..MaxBg
Pubs == 1..MaxPub

VARIABLES
  now,              \* wall clock, datetime.now(timezone.utc)
  tss,              \* Redis: task:<id> -> TaskDetail
  tq,               \* RabbitMQ task_queue: the ready messages
  pubs,             \* publish_task calls made so far, per task
  sub,              \* create_task_josn: position and arguments, per task
  cbh,              \* task_callback: the requests and handlers in flight
  ucalls,           \* _execute_user_callback invocations, per task
  api,              \* the request of the submitter API being handled, and its answer
  disp,             \* TaskScheduler._process_task_message: position and locals
  post_timeouts,    \* POSTs of the dispatcher that timed out so far
  wreq,             \* receive_task: the requests and handlers in flight
  current_task,     \* routes.current_task
  current_callback, \* routes.current_callback
  shutting_down,    \* routes.shutting_down
  task_queue,       \* main.task_queue (asyncio.Queue)
  result_queue,     \* main.result_queue (asyncio.Queue)
  bg_waiting,       \* process_result_callback coroutines inside result_queue.get()
  bgs,              \* process_result_callback coroutines holding a result
  loop,             \* inference_worker: position and task_data
  cb_timeouts,      \* result callback POSTs of the worker that timed out so far
  in_infer,         \* the number of tasks inside infer()
  execs,            \* infer() calls made so far, per published message
  cblog,            \* result callbacks of the worker, per accepted message
  accepted,         \* "accepted" answers of receive_task so far, per message
  probes,           \* _select_forwarder: what the probes of the discovered forwarders returned
  selected,         \* _select_forwarder: the forwarder it returned
  scheduler,        \* TaskScheduler: shutting_down and the position of stop()
  log_failures,     \* the log events whose publish_log raised inside _send_log
  deliveries,       \* the invocations of _process_task_message, seen from the broker
  norm,             \* _normalize_json_payload_to_minio: the payload, the uploads of the last pass
  forwarding,       \* _schedule_task: the branch of _select_forwarder taken, the worker at the POST
  exc               \* the AIRouteException built last, and the arguments it was built from

vars == <<now, tss, tq, pubs, sub, cbh, ucalls, api, disp, post_timeouts, wreq, current_task,
          current_callback, shutting_down, task_queue, result_queue, bg_waiting,
          bgs, loop, cb_timeouts, in_infer, execs, cblog, accepted, probes, selected,
          scheduler, log_failures, deliveries, norm, forwarding, exc>>

iccVars == <<now, tss, pubs, sub, ucalls, api>>
dispVars == <<disp, post_timeouts>>
schedulerVars == <<probes, selected, scheduler>>
workerVars == <<current_task, current_callback, shutting_down, task_queue,
                result_queue, bg_waiting, bgs, loop, cb_timeouts, in_infer, execs, cblog,
                accepted>>

\* ------------------------------------------------------------ data shapes
\* core.protocols.TaskDetail; status "ABSENT" stands for a missing key.
NoRec == [status |-> "ABSENT", retry_count |-> 0, max_retries |-> 0, result |-> FALSE,
          error |-> "null", last_error |-> FALSE, callback |-> FALSE,
          created_at |-> 0, updated_at |-> 0]

\* The message publish_task builds: task_id, the number of the publish, and
\* whose endpoint the callback field of the envelope names.
Callbacks == {"internal", "submitter"}
NoMsg == [task |-> "none", pub |-> 0, callback |-> "none"]
Msgs == [task : Tasks, pub : Pubs, callback : Callbacks]

\* A task POSTed to the worker with every required field, whose model_spec
\* is null: receive_task tests only that the field is there.
NullSpecMsg == [task |-> "t2", pub |-> 0, callback |-> "internal"]
WorkerMsgs == Msgs \cup {NullSpecMsg}

\* A message of TQ whose body json.loads cannot parse.
BadMsg == [task |-> "malformed", pub |-> 0, callback |-> "none"]

NoRes == [msg |-> NoMsg, status |-> "NONE"]

FreeCb == [pc |-> "free", task |-> "none", st |-> "NONE", key |-> "none", waiting |-> FALSE,
           code |-> 0, old |-> NoRec, rec |-> NoRec, retry_count |-> 0, posted |-> 0,
           ok |-> FALSE]
\* No request of the submitter API is being handled.
NoApi == [pc |-> "idle", op |-> "none", task |-> "none", key |-> "none", code |-> 0,
          rec |-> NoRec]
FreeReq == [pc |-> "free", msg |-> NoMsg, waiting |-> FALSE, code |-> 0]
FreeBg == [pc |-> "free", res |-> NoRes, cb |-> "none", retry_count |-> 0, call |-> 0]
IdleDisp == [pc |-> "idle", msg |-> NoMsg, forwarder |-> "none", call |-> 0, rec |-> NoRec]
\* No AIRouteException has been built.  An optional argument is the empty set
\* (None) or the set of its value.
NoException ==
  [built |-> FALSE, error_code |-> "none", message |-> "", http_status |-> 0,
   message_arg |-> {}, http_status_arg |-> {}]
\* _schedule_task has not selected a forwarder.
NoForwarding == [low_load |-> FALSE, busy_at_post |-> FALSE]
\* No payload is being normalized.
NoNorm ==
  [payload |-> [key |-> "prompt", list |-> FALSE, items |-> <<<<>>>>],
   uploads |-> 0, passes |-> MaxPasses]

\* No invocation of _process_task_message in this slot.
NoDelivery == [pc |-> "free", msg |-> NoMsg]
\* TaskScheduler after start(): not shutting down, stop() not called.
Running == [shutting_down |-> FALSE, pc |-> "running", rejected |-> FALSE,
            post_pending |-> FALSE, timeouts |-> 0]
NoLog == [posts |-> 0, ok |-> FALSE, done |-> FALSE]

\* The lowest free slot of a table of handlers.
HasFree(f, S) == \E s \in S : f[s].pc = "free"
FreeSlot(f, S) == CHOOSE s \in S : f[s].pc = "free" /\ \A s2 \in S : f[s2].pc = "free" => s <= s2

\* ------------------------------------------------------------------ Init
Init ==
  /\ now = 0
  /\ tss = [t \in Tasks |-> NoRec]
  /\ tq = {}
  /\ pubs = [t \in Tasks |-> 0]
  /\ sub = [t \in Tasks |-> [pc |-> "new", callback |-> FALSE, created_at |-> 0]]
  /\ cbh = [h \in Slots |-> FreeCb]
  /\ ucalls = [t \in Tasks |-> 0]
  /\ api = NoApi
  /\ disp = IdleDisp
  /\ post_timeouts = 0
  /\ wreq = [r \in RSlots |-> FreeReq]
  /\ current_task = NoMsg
  /\ current_callback = "none"
  /\ shutting_down = FALSE
  /\ task_queue = <<>>
  /\ result_queue = <<>>
  /\ bg_waiting = 0
  /\ bgs = [b \in BSlots |-> FreeBg]
  /\ loop = [pc |-> "get", msg |-> NoMsg]
  /\ cb_timeouts = 0
  /\ in_infer = 0
  /\ execs = [m \in WorkerMsgs |-> 0]
  /\ cblog = [m \in WorkerMsgs |-> NoLog]
  /\ accepted = [m \in WorkerMsgs |-> 0]
  /\ probes = {}
  /\ selected = "unset"
  /\ scheduler = Running
  /\ log_failures = {}
  /\ deliveries = [d \in Slots |-> NoDelivery]
  /\ norm = NoNorm
  /\ forwarding = NoForwarding
  /\ exc = NoException

\* The wall clock advances.
Tick ==
  /\ now < MaxNow
  /\ now' = now + 1
  /\ UNCHANGED <<exc, forwarding, norm, deliveries, log_failures, schedulerVars, api, tss, tq, pubs, sub, cbh, ucalls, dispVars, wreq, workerVars>>

\* ================================================================== ICC
\* Mutant: the envelope carries the callback of the submission.
task_data_submitter(cb) == [callback |-> IF cb THEN "submitter" ELSE "internal"]

\* The task_data dict create_task_josn and task_callback build for publish_task
\* for a task whose submission has (cb) or has not a callback: its callback is
\* the internal endpoint with the internal key.
task_data(cb) == [callback |-> "internal"]

\* RabbitMQClient.publish_task
publish_task(t, data) ==
  /\ pubs[t] < MaxPub
  /\ pubs' = [pubs EXCEPT ![t] = @ + 1]
  /\ tq' = tq \cup {[task |-> t, pub |-> pubs[t] + 1, callback |-> data.callback]}

\* create_task_josn up to the await of publish_task: task_id and now are taken,
\* the envelope is built and published.
create_task_publish(t, cb) ==
  /\ sub[t].pc = "new"
  /\ publish_task(t, task_data(cb))
  /\ sub' = [sub EXCEPT ![t] = [pc |-> "published", callback |-> cb, created_at |-> now]]
  /\ UNCHANGED <<exc, forwarding, norm, deliveries, log_failures, schedulerVars, api, now, tss, cbh, ucalls, dispVars, wreq, workerVars>>

\* Mutant: an exception of publish_log leaves _send_log.
LogRaises_propagates(ok) == ~ok

\* _send_log of the three services: publish_log runs inside try / except
\* Exception, which prints and returns; whether the emission succeeded (ok)
\* or raised, nothing is raised to the caller.
LogRaises(ok) == FALSE

\* _send_log(event): the events whose emission raised are remembered.
send_log(event, ok) ==
  log_failures' = IF ok THEN log_failures ELSE log_failures \cup {event}

\* create_task_josn up to the "task.published" log after publish_task; an
\* exception there would go to the except block, which answers 500.
create_task_publish_log(t, cb, ok) ==
  /\ sub[t].pc = "new"
  /\ publish_task(t, task_data(cb))
  /\ send_log("gateway:task.published", ok)
  /\ sub' = [sub EXCEPT ![t] = [pc |-> IF LogRaises(ok) THEN "failed" ELSE "published",
                                callback |-> cb, created_at |-> now]]
  /\ UNCHANGED <<exc, forwarding, norm, deliveries, schedulerVars, api, now, tss, cbh, ucalls, dispVars, wreq, workerVars>>

\* create_task_josn from the TaskDetail to the 201 answer: redis set_task.
create_task_persist(t) ==
  /\ sub[t].pc = "published"
  /\ tss' = [tss EXCEPT ![t] =
               [status |-> "PENDING", retry_count |-> 0, max_retries |-> MaxRetries,
                result |-> FALSE, error |-> "null", last_error |-> FALSE,
                callback |-> sub[t].callback, created_at |-> sub[t].created_at,
                updated_at |-> sub[t].created_at]]
  /\ sub' = [sub EXCEPT ![t].pc = "done"]
  /\ UNCHANGED <<exc, forwarding, norm, deliveries, log_failures, schedulerVars, api, now, tq, pubs, cbh, ucalls, dispVars, wreq, workerVars>>

\* create_task_josn raises before the envelope is built: the request body is
\* missing, or _normalize_json_payload_to_minio fails; the answer is an error.
create_task_rejected(t) ==
  /\ sub[t].pc = "new"
  /\ sub' = [sub EXCEPT ![t].pc = "failed"]
  /\ UNCHANGED <<exc, forwarding, norm, deliveries, log_failures, schedulerVars, api, now, tss, tq, pubs, cbh, ucalls, dispVars, wreq, workerVars>>

\* create_task_josn: redis set_task raises (Redis is not reachable); the except
\* block logs and answers 500.
create_task_persist_fails(t) ==
  /\ sub[t].pc = "published"
  /\ sub' = [sub EXCEPT ![t].pc = "failed"]
  /\ UNCHANGED <<exc, forwarding, norm, deliveries, log_failures, schedulerVars, api, now, tss, tq, pubs, cbh, ucalls, dispVars, wreq, workerVars>>

\* The answer of task_callback: kept for the caller while it waits, dropped
\* when the caller has timed out.
Answer(h, code) ==
  IF cbh[h].waiting
    THEN [cbh EXCEPT ![h] = [FreeCb EXCEPT !.pc = "done", !.task = cbh[h].task,
                                         !.st = cbh[h].st, !.key = cbh[h].key,
                                         !.waiting = TRUE, !.code = code]]
    ELSE [cbh EXCEPT ![h] = FreeCb]

\* elapsed_seconds > max_wait_time
Expired(rec) == now - rec.created_at > TaskMaxWaitTime

\* Mutant: the retry check off by one.
RetriesExhausted_off_by_one(rec) == rec.retry_count > rec.max_retries

\* retry_count >= max_retries
RetriesExhausted(rec) == rec.retry_count >= rec.max_retries

\* Mutant: the wall-clock check is made for FAILED callbacks only.
CallbackBranch_success_first(rec, st) ==
  IF st = "SUCCESS" THEN "success_set"
  ELSE IF Expired(rec) THEN "timeout_delete"
  ELSE IF RetriesExhausted(rec) THEN "failed_set"
  ELSE "retry_set"

\* The branch task_callback takes on the record it loaded, and the record as
\* the branch changes it in memory before its first write.
CallbackBranch(rec, st) ==
  IF Expired(rec) THEN "timeout_delete"
  ELSE IF st = "SUCCESS" THEN "success_set"
  ELSE IF RetriesExhausted(rec) THEN "failed_set"
  ELSE "retry_set"

\* Mutant: the retry branch forgets to count the retry.
CallbackRecord_no_increment(rec, st) ==
  IF Expired(rec)
    THEN [rec EXCEPT !.status = "FAILED", !.error = "timeout", !.updated_at = now]
  ELSE IF st = "SUCCESS"
    THEN [rec EXCEPT !.status = "SUCCESS", !.result = TRUE, !.updated_at = now]
  ELSE IF RetriesExhausted(rec)
    THEN [rec EXCEPT !.status = "FAILED", !.error = "max_retries", !.last_error = TRUE,
                     !.updated_at = now]
  ELSE [rec EXCEPT !.last_error = TRUE, !.updated_at = now]

CallbackRecord(rec, st) ==
  IF Expired(rec)
    THEN [rec EXCEPT !.status = "FAILED", !.error = "timeout", !.updated_at = now]
  ELSE IF st = "SUCCESS"
    THEN [rec EXCEPT !.status = "SUCCESS", !.result = TRUE, !.updated_at = now]
  ELSE IF RetriesExhausted(rec)
    THEN [rec EXCEPT !.status = "FAILED", !.error = "max_retries", !.last_error = TRUE,
                     !.updated_at = now]
  ELSE [rec EXCEPT !.retry_count = @ + 1, !.last_error = TRUE, !.updated_at = now]

\* Mutant: the Authorization header of the internal callback is not looked at.
Authorized_any(key) == key = key

\* task_callback: the Authorization header is "Bearer <api_gateway_internal_key>".
Authorized(key) == key = "internal"

\* task_callback: 401 on a wrong Authorization header; redis get_task, 404 when
\* the key is missing, else the checks on the loaded record up to the first write.
task_callback_get(h) ==
  /\ cbh[h].pc = "sent"
  /\ LET rec == tss[cbh[h].task] IN
       IF ~Authorized(cbh[h].key)
         THEN cbh' = Answer(h, 401)
       ELSE IF rec.status = "ABSENT"
         THEN cbh' = Answer(h, 404)
         ELSE cbh' = [cbh EXCEPT ![h].pc = CallbackBranch(rec, cbh[h].st),
                                 ![h].old = rec,
                                 ![h].rec = CallbackRecord(rec, cbh[h].st)]
  /\ UNCHANGED <<exc, forwarding, norm, deliveries, log_failures, schedulerVars, api, now, tss, tq, pubs, sub, ucalls, dispVars, wreq, workerVars>>

\* task_callback, timeout branch: delete_task, answer "timeout".
task_callback_timeout(h) ==
  /\ cbh[h].pc = "timeout_delete"
  /\ tss' = [tss EXCEPT ![cbh[h].task] = NoRec]
  /\ cbh' = Answer(h, 200)
  /\ UNCHANGED <<exc, forwarding, norm, deliveries, log_failures, schedulerVars, api, now, tq, pubs, sub, ucalls, dispVars, wreq, workerVars>>

\* task_callback, success and max-retries branches: set_task of the terminal
\* record; the handler goes on to the user callback only when the record has one.
task_callback_set_terminal(h) ==
  /\ cbh[h].pc \in {"success_set", "failed_set"}
  /\ tss' = [tss EXCEPT ![cbh[h].task] = cbh[h].rec]
  /\ cbh' = IF cbh[h].rec.callback
              THEN [cbh EXCEPT ![h].pc = "user_callback"]
              ELSE Answer(h, 200)
  /\ UNCHANGED <<exc, forwarding, norm, deliveries, log_failures, schedulerVars, api, now, tq, pubs, sub, ucalls, dispVars, wreq, workerVars>>

\* task_callback: set_task of the terminal record, then the "task.completed" /
\* "task.failed" log; an exception there would go to the except block, which
\* answers 500.
task_callback_set_terminal_log(h, ok) ==
  /\ cbh[h].pc \in {"success_set", "failed_set"}
  /\ tss' = [tss EXCEPT ![cbh[h].task] = cbh[h].rec]
  /\ send_log("gateway:task.completed", ok)
  /\ cbh' = IF LogRaises(ok) THEN Answer(h, 500)
            ELSE IF cbh[h].rec.callback
              THEN [cbh EXCEPT ![h].pc = "user_callback"]
              ELSE Answer(h, 200)
  /\ UNCHANGED <<exc, forwarding, norm, deliveries, schedulerVars, api, now, tq, pubs, sub, ucalls, dispVars, wreq, workerVars>>

\* _execute_user_callback, called by task_callback.
execute_user_callback(h) ==
  /\ cbh[h].pc = "user_callback"
  /\ ucalls' = [ucalls EXCEPT ![cbh[h].task] = @ + 1]
  /\ cbh' = [cbh EXCEPT ![h].pc = "terminal_delete"]
  /\ UNCHANGED <<exc, forwarding, norm, deliveries, log_failures, schedulerVars, api, now, tss, tq, pubs, sub, dispVars, wreq, workerVars>>

\* Mutant: one more attempt before giving up.
UserCallbackGoesOn_one_more(retry_count) == retry_count <= UserCallbackMaxRetries + 1

\* _execute_user_callback: while retry_count <= max_retries
UserCallbackGoesOn(retry_count) == retry_count <= UserCallbackMaxRetries

\* _execute_user_callback, one turn of its loop: the POST to the callback URL
\* of the submitter is answered 2xx (ok) and the function returns, or it is
\* answered otherwise, times out or raises, retry_count is incremented and the
\* loop goes on after the backoff or ends with the error log.
execute_user_callback_attempt(h, ok) ==
  /\ cbh[h].pc = "user_callback"
  /\ ucalls' = [ucalls EXCEPT ![cbh[h].task] = IF cbh[h].posted = 0 THEN @ + 1 ELSE @]
  /\ cbh' = [cbh EXCEPT ![h] =
               IF ok
                 THEN [@ EXCEPT !.posted = @ + 1, !.ok = TRUE, !.pc = "terminal_delete"]
                 ELSE [@ EXCEPT !.posted = @ + 1, !.retry_count = @ + 1,
                                !.pc = IF UserCallbackGoesOn(cbh[h].retry_count + 1)
                                         THEN "user_callback" ELSE "terminal_delete"]]
  /\ UNCHANGED <<exc, forwarding, norm, deliveries, log_failures, schedulerVars, api, now, tss, tq, pubs, sub, dispVars, wreq, workerVars>>

\* task_callback after the user callback: delete_task, answer.
task_callback_delete(h) ==
  /\ cbh[h].pc = "terminal_delete"
  /\ tss' = [tss EXCEPT ![cbh[h].task] = NoRec]
  /\ cbh' = Answer(h, 200)
  /\ UNCHANGED <<exc, forwarding, norm, deliveries, log_failures, schedulerVars, api, now, tq, pubs, sub, ucalls, dispVars, wreq, workerVars>>

\* task_callback, retry branch: set_task of the incremented record.
task_callback_retry_set(h) ==
  /\ cbh[h].pc = "retry_set"
  /\ tss' = [tss EXCEPT ![cbh[h].task] = cbh[h].rec]
  /\ cbh' = [cbh EXCEPT ![h].pc = "retry_publish"]
  /\ UNCHANGED <<exc, forwarding, norm, deliveries, log_failures, schedulerVars, api, now, tq, pubs, sub, ucalls, dispVars, wreq, workerVars>>

\* task_callback, retry branch: publish_task of the rebuilt envelope, answer.
task_callback_retry_publish(h) ==
  /\ cbh[h].pc = "retry_publish"
  /\ publish_task(cbh[h].task, task_data(cbh[h].rec.callback))
  /\ cbh' = Answer(h, 200)
  /\ UNCHANGED <<exc, forwarding, norm, deliveries, log_failures, schedulerVars, api, now, tss, sub, ucalls, dispVars, wreq, workerVars>>

\* ======================================================== submitter API
\* verify_api_key with API keys configured: the bearer token is one of them.
verify_api_key(key) == key = "valid"

\* The answer to a request of the submitter API: the status code and, for
\* get_task_result, the record the body is taken from.
ApiAnswer(op, t, key, code, rec) ==
  [NoApi EXCEPT !.pc = "done", !.op = op, !.task = t, !.key = key, !.code = code,
                !.rec = rec]

\* create_task_josn behind Depends(verify_api_key): a request whose token
\* verify_api_key refuses is answered 401 before the handler runs.
create_task_unauthorized(t, key) ==
  /\ api.pc \in {"idle", "done"}
  /\ sub[t].pc = "new"
  /\ ~verify_api_key(key)
  /\ api' = ApiAnswer("submit", t, key, 401, NoRec)
  /\ UNCHANGED <<exc, forwarding, norm, deliveries, log_failures, schedulerVars, now, tss, tq, pubs, sub, ucalls, cbh, dispVars, wreq, workerVars>>

\* GET /tasks/{task_id} (the route has no verify_api_key dependency): redis
\* get_task, 404 without a record, else the record.
get_task(t, key) ==
  /\ api.pc \in {"idle", "done"}
  /\ api' = ApiAnswer("get", t, key, IF tss[t].status = "ABSENT" THEN 404 ELSE 200, NoRec)
  /\ UNCHANGED <<exc, forwarding, norm, deliveries, log_failures, schedulerVars, now, tss, tq, pubs, sub, ucalls, cbh, dispVars, wreq, workerVars>>

\* GET /tasks/{task_id}/status (no verify_api_key dependency).
get_task_status(t, key) ==
  /\ api.pc \in {"idle", "done"}
  /\ api' = ApiAnswer("status", t, key, IF tss[t].status = "ABSENT" THEN 404 ELSE 200, NoRec)
  /\ UNCHANGED <<exc, forwarding, norm, deliveries, log_failures, schedulerVars, now, tss, tq, pubs, sub, ucalls, cbh, dispVars, wreq, workerVars>>

\* Mutant: only PENDING counts as not finished.
ResultPending_only_pending(rec) == rec.status = "PENDING"

\* get_task_result: the task is still PENDING or PROCESSING.
ResultPending(rec) == rec.status = "PENDING" \/ rec.status = "PROCESSING"

\* GET /tasks/{task_id}/result (no verify_api_key dependency) up to the await
\* of delete_task: redis get_task, 404 without a record, 202 while not finished.
get_task_result_get(t, key) ==
  /\ api.pc \in {"idle", "done"}
  /\ api' = IF tss[t].status = "ABSENT" THEN ApiAnswer("result", t, key, 404, NoRec)
            ELSE IF ResultPending(tss[t]) THEN ApiAnswer("result", t, key, 202, NoRec)
            ELSE [NoApi EXCEPT !.pc = "result_delete", !.op = "result", !.task = t,
                               !.key = key, !.rec = tss[t]]
  /\ UNCHANGED <<exc, forwarding, norm, deliveries, log_failures, schedulerVars, now, tss, tq, pubs, sub, ucalls, cbh, dispVars, wreq, workerVars>>

\* get_task_result: redis delete_task, then 500 for a FAILED record and 200
\* with the result otherwise.
get_task_result_delete ==
  /\ api.pc = "result_delete"
  /\ tss' = [tss EXCEPT ![api.task] = NoRec]
  /\ api' = ApiAnswer("result", api.task, api.key,
                      IF api.rec.status = "FAILED" THEN 500 ELSE 200, api.rec)
  /\ UNCHANGED <<exc, forwarding, norm, deliveries, log_failures, schedulerVars, now, tq, pubs, sub, ucalls, cbh, dispVars, wreq, workerVars>>

\* DELETE /tasks/{task_id} (no verify_api_key dependency): redis get_task, 404
\* without a record; else redis_client.cleanup_task_shared_memory, which
\* RedisClient does not define: the AttributeError is answered 500 by the
\* except block and the delete of the key is not reached.
delete_task(t, key) ==
  /\ api.pc \in {"idle", "done"}
  /\ api' = ApiAnswer("delete", t, key, IF tss[t].status = "ABSENT" THEN 404 ELSE 500, NoRec)
  /\ UNCHANGED <<exc, forwarding, norm, deliveries, log_failures, schedulerVars, now, tss, tq, pubs, sub, ucalls, cbh, dispVars, wreq, workerVars>>

\* =========================================================== dispatcher
\* What the two probes of _select_forwarder return for the worker:
\* _get_supported_tasks and _get_forwarder_status. While the worker's event
\* loop is inside the synchronous infer() both probes time out, which the
\* dispatcher reads as "supports nothing".
Responsive == loop.pc # "infer"

Probe ==
  [id |-> "w1",
   supported |-> Responsive,
   is_idle |-> Responsive /\ current_task = NoMsg,
   current_task |-> Responsive /\ current_task # NoMsg,
   pending |-> IF Responsive THEN Len(task_queue) ELSE 0]

\* TaskScheduler._select_forwarder on the probes of the discovered forwarders:
\* an idle candidate with the least pending count, else a busy one with
\* pending_tasks_count <= scheduler_task_max_count, else None.
\* Mutant: an idle forwarder is a candidate whatever it supports.
IdleCandidates_any_type(ps) == {p \in ps : p.is_idle}

IdleCandidates(ps) == {p \in ps : p.supported /\ p.is_idle}
LowLoadCandidates(ps) ==
  {p \in ps : p.supported /\ ~p.is_idle /\ p.current_task /\ p.pending <= SchedulerTaskMaxCount}
\* Mutant: any candidate, whatever its pending count.
MinPending_any(cs) == CHOOSE p \in cs : TRUE

\* min(candidates, key=pending_tasks_count)
MinPending(cs) == CHOOSE p \in cs : \A q \in cs : p.pending <= q.pending
select_forwarder(ps) ==
  IF IdleCandidates(ps) # {} THEN MinPending(IdleCandidates(ps)).id
  ELSE IF LowLoadCandidates(ps) # {} THEN MinPending(LowLoadCandidates(ps)).id
  ELSE "none"

\* _process_task_message: a message is delivered (prefetch_count = 1) and parsed.
process_task_message_receive(m) ==
  /\ scheduler.pc # "stopped"
  /\ ~scheduler.shutting_down
  /\ disp.pc = "idle"
  /\ m \in tq
  /\ tq' = tq \ {m}
  /\ disp' = [IdleDisp EXCEPT !.pc = "select", !.msg = m]
  /\ UNCHANGED <<exc, forwarding, norm, deliveries, log_failures, schedulerVars, iccVars, cbh, post_timeouts, wreq, workerVars>>

\* _process_task_message: delivery, json.loads and the "task.received" log; an
\* exception there would go to the outer except block.
process_task_message_receive_log(m, ok) ==
  /\ scheduler.pc # "stopped"
  /\ ~scheduler.shutting_down
  /\ disp.pc = "idle"
  /\ m \in tq
  /\ tq' = tq \ {m}
  /\ send_log("scheduler:task.received", ok)
  /\ disp' = [IdleDisp EXCEPT !.pc = IF LogRaises(ok) THEN "error" ELSE "select", !.msg = m]
  /\ UNCHANGED <<exc, forwarding, norm, deliveries, schedulerVars, iccVars, cbh, post_timeouts, wreq, workerVars>>

\* _schedule_task: _select_forwarder; no forwarder makes it return False.
schedule_task_select ==
  /\ disp.pc = "select"
  /\ LET f == select_forwarder({Probe}) IN
       disp' = [disp EXCEPT !.forwarder = f, !.pc = IF f = "none" THEN "requeue" ELSE "post"]
  /\ UNCHANGED <<exc, forwarding, norm, deliveries, log_failures, schedulerVars, iccVars, tq, cbh, post_timeouts, wreq, workerVars>>

\* What the probes return for a task type the worker has not registered:
\* get_registered_task_types() does not contain it.
UnsupportedProbe == [Probe EXCEPT !.supported = FALSE]

\* _schedule_task for a message whose task_type the worker does not support.
schedule_task_select_unsupported ==
  /\ disp.pc = "select"
  /\ LET f == select_forwarder({UnsupportedProbe}) IN
       disp' = [disp EXCEPT !.forwarder = f, !.pc = IF f = "none" THEN "requeue" ELSE "post"]
  /\ UNCHANGED <<exc, forwarding, norm, deliveries, log_failures, schedulerVars, iccVars, tq, cbh, post_timeouts, wreq, workerVars>>

\* _schedule_task: http_client.post(<forwarder>/api/v1/tasks) is sent.
schedule_task_post ==
  /\ disp.pc = "post"
  /\ HasFree(wreq, RSlots)
  /\ LET r == FreeSlot(wreq, RSlots) IN
       /\ wreq' = [wreq EXCEPT ![r] = [FreeReq EXCEPT !.pc = "sent", !.msg = disp.msg,
                                                     !.waiting = TRUE]]
       /\ disp' = [disp EXCEPT !.pc = "wait", !.call = r]
  /\ UNCHANGED <<exc, forwarding, norm, deliveries, log_failures, schedulerVars, iccVars, tq, cbh, post_timeouts, workerVars>>

\* _schedule_task: _select_forwarder, with the branch that returned the
\* forwarder: the idle candidates (step 3) or the low-load ones (step 4).
schedule_task_select_branch ==
  /\ disp.pc = "select"
  /\ LET f == select_forwarder({Probe}) IN
       /\ disp' = [disp EXCEPT !.forwarder = f,
                               !.pc = IF f = "none" THEN "requeue" ELSE "post"]
       /\ forwarding' = [low_load |-> f # "none" /\ IdleCandidates({Probe}) = {},
                         busy_at_post |-> FALSE]
  /\ UNCHANGED <<exc, norm, deliveries, log_failures, schedulerVars, iccVars, tq, cbh, post_timeouts, wreq, workerVars>>

\* _schedule_task: http_client.post(<forwarder>/api/v1/tasks) is sent; what
\* the worker's current_task is at that moment.
schedule_task_post_sent ==
  /\ disp.pc = "post"
  /\ HasFree(wreq, RSlots)
  /\ LET r == FreeSlot(wreq, RSlots) IN
       /\ wreq' = [wreq EXCEPT ![r] = [FreeReq EXCEPT !.pc = "sent", !.msg = disp.msg,
                                                     !.waiting = TRUE]]
       /\ disp' = [disp EXCEPT !.pc = "wait", !.call = r]
  /\ forwarding' = [forwarding EXCEPT !.busy_at_post = current_task # NoMsg]
  /\ UNCHANGED <<exc, norm, deliveries, log_failures, schedulerVars, iccVars, tq, cbh, post_timeouts, workerVars>>

\* Mutant: every answer of the worker counts as forwarded.
Forwarded_any_answer(code) == code = code

\* The status codes _schedule_task returns True on.
Forwarded(code) == code = 200 \/ code = 201

\* _schedule_task: the answer of the POST; True is followed by message.ack().
schedule_task_response ==
  /\ disp.pc = "wait"
  /\ wreq[disp.call].pc = "done"
  /\ disp' = [disp EXCEPT !.pc = IF Forwarded(wreq[disp.call].code) THEN "get_task" ELSE "requeue",
                          !.call = 0]
  /\ wreq' = [wreq EXCEPT ![disp.call] = FreeReq]
  /\ UNCHANGED <<exc, forwarding, norm, deliveries, log_failures, schedulerVars, iccVars, tq, cbh, post_timeouts, workerVars>>

\* _schedule_task: the POST raises (timeout=30.0 or a transport error); the
\* request may still be handled by the worker.
schedule_task_timeout ==
  /\ disp.pc = "wait"
  /\ post_timeouts < MaxPostTimeouts
  /\ post_timeouts' = post_timeouts + 1
  /\ wreq' = [wreq EXCEPT ![disp.call] =
                IF wreq[disp.call].pc = "done" THEN FreeReq
                ELSE [wreq[disp.call] EXCEPT !.waiting = FALSE]]
  /\ disp' = [disp EXCEPT !.pc = "requeue", !.call = 0]
  /\ UNCHANGED <<exc, forwarding, norm, deliveries, log_failures, schedulerVars, iccVars, tq, cbh, workerVars>>

\* _process_task_message, scheduling failed: sleep, message.reject(requeue=True).
process_task_message_requeue ==
  /\ disp.pc = "requeue"
  /\ tq' = tq \cup {disp.msg}
  /\ disp' = IdleDisp
  /\ UNCHANGED <<exc, forwarding, norm, deliveries, log_failures, schedulerVars, iccVars, cbh, post_timeouts, wreq, workerVars>>

\* _process_task_message: a message is delivered whose body json.loads cannot
\* parse; the exception takes the handler to its outer except block.
process_task_message_malformed ==
  /\ scheduler.pc # "stopped"
  /\ ~scheduler.shutting_down
  /\ disp.pc = "idle"
  /\ BadMsg \in tq
  /\ tq' = tq \ {BadMsg}
  /\ disp' = [IdleDisp EXCEPT !.pc = "error", !.msg = BadMsg]
  /\ UNCHANGED <<exc, forwarding, norm, deliveries, log_failures, schedulerVars, iccVars, cbh, post_timeouts, wreq, workerVars>>

\* _process_task_message while shutting_down is set: message.reject(requeue=True)
\* before anything else; the message is ready in the queue again.
process_task_message_shutting_down(m) ==
  /\ scheduler.pc # "stopped"
  /\ scheduler.shutting_down
  /\ disp.pc = "idle"
  /\ m \in tq
  /\ scheduler' = [scheduler EXCEPT !.rejected = TRUE]
  /\ UNCHANGED <<exc, forwarding, norm, deliveries, log_failures, iccVars, tq, cbh, dispVars, wreq, workerVars, probes, selected>>

\* TaskScheduler.processing_task: set after the shutting_down test, cleared in
\* the finally block of _process_task_message.
processing_task == disp.pc # "idle"

\* The positions of _process_task_message at which the message delivered is
\* neither acked nor rejected yet.
Unsettled == {"select", "post", "wait", "requeue", "error"}

\* stop(): shutting_down = True; it waits only when processing_task is set.
\* post_pending and timeouts record whether the POST of the dispatch in
\* flight is still to be sent, and the POSTs timed out so far.
stop_begin ==
  /\ scheduler.pc = "running"
  /\ scheduler' = [shutting_down |-> TRUE,
                   pc |-> IF processing_task THEN "waiting" ELSE "closing",
                   rejected |-> FALSE,
                   post_pending |-> disp.pc \in {"select", "post"},
                   timeouts |-> post_timeouts]
  /\ UNCHANGED <<exc, forwarding, norm, deliveries, log_failures, iccVars, tq, cbh, dispVars, wreq, workerVars, probes, selected>>

\* stop(): the wait loop ends because processing_task is False.
stop_wait_done ==
  /\ scheduler.pc = "waiting"
  /\ ~processing_task
  /\ scheduler' = [scheduler EXCEPT !.pc = "closing"]
  /\ UNCHANGED <<exc, forwarding, norm, deliveries, log_failures, iccVars, tq, cbh, dispVars, wreq, workerVars, probes, selected>>

\* stop(): the wait loop ends because wait_time reached max_wait = 30 while
\* processing_task is still set.  The dispatch in flight sent its POST after
\* stop() began, the POST ran into its timeout of 30.0 and the handler is in
\* asyncio.sleep(scheduler_retry_delay) before its reject.
stop_wait_expired ==
  /\ scheduler.pc = "waiting"
  /\ scheduler.post_pending
  /\ post_timeouts > scheduler.timeouts
  /\ disp.pc = "requeue"
  /\ scheduler' = [scheduler EXCEPT !.pc = "closing"]
  /\ UNCHANGED <<exc, forwarding, norm, deliveries, log_failures, iccVars, tq, cbh, dispVars, wreq, workerVars, probes, selected>>

\* stop(): rabbitmq_client.disconnect(); the broker puts a delivered message
\* that is neither acked nor rejected back in the queue.
stop_disconnect ==
  /\ scheduler.pc = "closing"
  /\ scheduler' = [scheduler EXCEPT !.pc = "stopped"]
  /\ tq' = IF disp.pc \in Unsettled THEN tq \cup {disp.msg} ELSE tq
  /\ UNCHANGED <<exc, forwarding, norm, deliveries, log_failures, iccVars, cbh, dispVars, wreq, workerVars, probes, selected>>

\* _process_task_message, outer except block: _send_log, message.reject(requeue=True).
process_task_message_error ==
  /\ disp.pc = "error"
  /\ tq' = tq \cup {disp.msg}
  /\ disp' = IdleDisp
  /\ UNCHANGED <<exc, forwarding, norm, deliveries, log_failures, schedulerVars, iccVars, cbh, post_timeouts, wreq, workerVars>>

\* _process_task_message after the ack: redis get_task; the record, when there
\* is one, is changed in memory to PROCESSING.
process_task_message_get ==
  /\ disp.pc = "get_task"
  /\ LET rec == tss[disp.msg.task] IN
       disp' = IF rec.status = "ABSENT" THEN IdleDisp
               ELSE [disp EXCEPT !.pc = "set_task",
                                 !.rec = [rec EXCEPT !.status = "PROCESSING", !.updated_at = now]]
  /\ UNCHANGED <<exc, forwarding, norm, deliveries, log_failures, schedulerVars, iccVars, tq, cbh, post_timeouts, wreq, workerVars>>

\* _process_task_message: redis set_task of the record read before.
process_task_message_set ==
  /\ disp.pc = "set_task"
  /\ tss' = [tss EXCEPT ![disp.msg.task] = disp.rec]
  /\ disp' = IdleDisp
  /\ UNCHANGED <<exc, forwarding, norm, deliveries, log_failures, schedulerVars, api, now, pubs, sub, ucalls, tq, cbh, post_timeouts, wreq, workerVars>>

\* =============================================================== worker
\* The answer of receive_task: kept for the caller while it waits.
ReqAnswer(r, code) ==
  IF wreq[r].waiting
    THEN [wreq EXCEPT ![r] = [wreq[r] EXCEPT !.pc = "done", !.code = code]]
    ELSE [wreq EXCEPT ![r] = FreeReq]

\* receive_task refuses the request: shutting_down or current_task is not None.
Refuses == shutting_down \/ current_task # NoMsg

\* receive_task up to the await of _send_log: the two 503 checks (the envelopes
\* of publish_task carry every required field).
receive_task_check(r) ==
  /\ Responsive
  /\ wreq[r].pc = "sent"
  /\ wreq' = IF Refuses THEN ReqAnswer(r, 503) ELSE [wreq EXCEPT ![r].pc = "log"]
  /\ UNCHANGED <<exc, forwarding, norm, deliveries, log_failures, schedulerVars, iccVars, tq, cbh, dispVars, workerVars>>

\* receive_task up to the "task.received" log; an exception there would leave
\* the handler and be answered 500.
receive_task_check_log(r, ok) ==
  /\ Responsive
  /\ wreq[r].pc = "sent"
  /\ IF Refuses
       THEN /\ wreq' = ReqAnswer(r, 503)
            /\ log_failures' = log_failures
       ELSE /\ send_log("forwarder:task.received", ok)
            /\ wreq' = IF LogRaises(ok) THEN ReqAnswer(r, 500) ELSE [wreq EXCEPT ![r].pc = "log"]
  /\ UNCHANGED <<exc, forwarding, norm, deliveries, schedulerVars, iccVars, tq, cbh, dispVars, workerVars>>

\* receive_task after _send_log: current_callback and current_task are set, the
\* task is put on task_queue, process_result_callback is added as a background
\* task, and the answer is "accepted".
receive_task_accept(r) ==
  /\ Responsive
  /\ wreq[r].pc = "log"
  /\ current_callback' = wreq[r].msg.task
  /\ current_task' = wreq[r].msg
  /\ task_queue' = Append(task_queue, wreq[r].msg)
  /\ bg_waiting' = bg_waiting + 1
  /\ accepted' = [accepted EXCEPT ![wreq[r].msg] = @ + 1]
  /\ wreq' = ReqAnswer(r, 200)
  /\ UNCHANGED <<exc, forwarding, norm, deliveries, log_failures, schedulerVars, iccVars, tq, cbh, dispVars, shutting_down, result_queue, bgs, loop,
                 in_infer, execs, cblog, cb_timeouts>>

\* Mutant: the loop takes the next task without waiting for infer() to return.
inference_worker_get_unawaited ==
  /\ loop.pc \in {"get", "infer"}
  /\ task_queue # <<>>
  /\ task_queue' = Tail(task_queue)
  /\ IF loop.pc = "get"
       THEN /\ loop' = [pc |-> "log", msg |-> Head(task_queue)]
            /\ UNCHANGED <<exc, forwarding, norm, deliveries, log_failures, schedulerVars, in_infer, execs>>
       ELSE /\ loop' = loop
            /\ in_infer' = in_infer + 1
            /\ execs' = [execs EXCEPT ![Head(task_queue)] = @ + 1]
  /\ UNCHANGED <<exc, forwarding, norm, deliveries, log_failures, schedulerVars, iccVars, tq, cbh, dispVars, wreq, current_task, current_callback,
                 shutting_down, result_queue, bg_waiting, bgs, cblog, accepted, cb_timeouts>>

\* inference_worker: task_queue.get().
inference_worker_get ==
  /\ loop.pc = "get"
  /\ task_queue # <<>>
  /\ loop' = [pc |-> "log", msg |-> Head(task_queue)]
  /\ task_queue' = Tail(task_queue)
  /\ UNCHANGED <<exc, forwarding, norm, deliveries, log_failures, schedulerVars, iccVars, tq, cbh, dispVars, wreq, current_task, current_callback,
                 shutting_down, result_queue, bg_waiting, bgs, in_infer, execs, cblog, accepted, cb_timeouts>>

\* inference_worker: task_queue.get() and the "inference.started" log; an
\* exception there would go to the outer except block of the loop.
inference_worker_get_log(ok) ==
  /\ loop.pc = "get"
  /\ task_queue # <<>>
  /\ send_log("forwarder:inference.started", ok)
  /\ loop' = IF LogRaises(ok) THEN [pc |-> "get", msg |-> NoMsg]
             ELSE [pc |-> "log", msg |-> Head(task_queue)]
  /\ task_queue' = Tail(task_queue)
  /\ UNCHANGED <<exc, forwarding, norm, deliveries, schedulerVars, iccVars, tq, cbh, dispVars, wreq, current_task, current_callback,
                 shutting_down, result_queue, bg_waiting, bgs, in_infer, execs, cblog, accepted,
                 cb_timeouts>>

\* inference_worker after the "inference.started" log: infer() is entered.
inference_worker_infer ==
  /\ loop.pc = "log"
  /\ loop.msg # NullSpecMsg
  /\ loop' = [loop EXCEPT !.pc = "infer"]
  /\ in_infer' = in_infer + 1
  /\ execs' = [execs EXCEPT ![loop.msg] = @ + 1]
  /\ UNCHANGED <<exc, forwarding, norm, deliveries, log_failures, schedulerVars, iccVars, tq, cbh, dispVars, wreq, current_task, current_callback,
                 shutting_down, task_queue, result_queue, bg_waiting, bgs, cblog, accepted, cb_timeouts>>

\* inference_worker with model_spec null: model_spec.get("name"), evaluated for
\* the "inference.started" log outside the inner try, raises; the outer except
\* prints, sleeps and the loop goes on with the next task_queue.get().  Nothing
\* is put on result_queue.
inference_worker_error ==
  /\ loop.pc = "log"
  /\ loop.msg = NullSpecMsg
  /\ loop' = [pc |-> "get", msg |-> NoMsg]
  /\ UNCHANGED <<exc, forwarding, norm, deliveries, log_failures, schedulerVars, iccVars, tq, cbh, dispVars, wreq, current_task, current_callback,
                 shutting_down, task_queue, result_queue, bg_waiting, bgs, in_infer, execs,
                 cblog, accepted, cb_timeouts>>

\* inference_worker: infer() returns its SUCCESS or FAILED packet, which is put
\* on result_queue; task_done.
inference_worker_result(st) ==
  /\ loop.pc = "infer"
  /\ result_queue' = Append(result_queue, [msg |-> loop.msg, status |-> st])
  /\ in_infer' = in_infer - 1
  /\ loop' = [pc |-> "get", msg |-> NoMsg]
  /\ UNCHANGED <<exc, forwarding, norm, deliveries, log_failures, schedulerVars, iccVars, tq, cbh, dispVars, wreq, current_task, current_callback,
                 shutting_down, task_queue, bg_waiting, bgs, execs, cblog, accepted, cb_timeouts>>

\* The finally block of process_result_callback.
ClearCurrent ==
  /\ current_task' = NoMsg
  /\ current_callback' = "none"

\* process_result_callback: result_queue.get() returns; without a
\* current_callback the coroutine ends at once.
process_result_callback_get ==
  /\ Responsive
  /\ bg_waiting > 0
  /\ result_queue # <<>>
  /\ HasFree(bgs, BSlots)
  /\ bg_waiting' = bg_waiting - 1
  /\ result_queue' = Tail(result_queue)
  /\ LET res == Head(result_queue)
         b == FreeSlot(bgs, BSlots) IN
       IF current_callback = "none"
         THEN /\ ClearCurrent
              /\ cblog' = [cblog EXCEPT ![res.msg].done = TRUE]
              /\ bgs' = bgs
         ELSE /\ bgs' = [bgs EXCEPT ![b] = [FreeBg EXCEPT !.pc = "log", !.res = res]]
              /\ UNCHANGED <<exc, forwarding, norm, deliveries, log_failures, schedulerVars, current_task, current_callback, cblog>>
  /\ UNCHANGED <<exc, forwarding, norm, deliveries, log_failures, schedulerVars, iccVars, tq, cbh, dispVars, wreq, shutting_down, task_queue, loop,
                 in_infer, execs, accepted, cb_timeouts>>

\* process_result_callback after the "inference.completed" log: url and headers
\* are read from current_callback; None there raises, and the coroutine ends in
\* its except and finally blocks.
process_result_callback_start(b) ==
  /\ Responsive
  /\ bgs[b].pc = "log"
  /\ IF current_callback = "none"
       THEN /\ ClearCurrent
            /\ cblog' = [cblog EXCEPT ![bgs[b].res.msg].done = TRUE]
            /\ bgs' = [bgs EXCEPT ![b] = FreeBg]
       ELSE /\ bgs' = [bgs EXCEPT ![b].pc = "post", ![b].cb = current_callback]
            /\ UNCHANGED <<exc, forwarding, norm, deliveries, log_failures, schedulerVars, current_task, current_callback, cblog>>
  /\ UNCHANGED <<exc, forwarding, norm, deliveries, log_failures, schedulerVars, iccVars, tq, cbh, dispVars, wreq, shutting_down, task_queue,
                 result_queue, bg_waiting, loop, in_infer, execs, accepted, cb_timeouts>>

\* _execute_callback_with_retry: http_client.post of the result packet.
execute_callback_post(b) ==
  /\ Responsive
  /\ bgs[b].pc = "post"
  /\ HasFree(cbh, Slots)
  /\ LET h == FreeSlot(cbh, Slots) IN
       /\ cbh' = [cbh EXCEPT ![h] = [FreeCb EXCEPT !.pc = "sent", !.task = bgs[b].res.msg.task,
                                                  !.st = bgs[b].res.status,
                                                  !.key = bgs[b].res.msg.callback,
                                                  !.waiting = TRUE]]
       /\ bgs' = [bgs EXCEPT ![b].pc = "wait", ![b].call = h]
  /\ cblog' = [cblog EXCEPT ![bgs[b].res.msg].posts = @ + 1]
  /\ UNCHANGED <<exc, forwarding, norm, deliveries, log_failures, schedulerVars, iccVars, tq, dispVars, wreq, current_task, current_callback, shutting_down,
                 task_queue, result_queue, bg_waiting, loop, in_infer, execs, accepted, cb_timeouts>>

\* _execute_callback_with_retry after a failed attempt: retry_count += 1, and
\* another attempt while retry_count <= max_retries; else process_result_callback
\* ends in its finally block.
CallbackRetry(b) ==
  IF bgs[b].retry_count + 1 <= CallbackMaxRetries
    THEN /\ bgs' = [bgs EXCEPT ![b].pc = "post", ![b].retry_count = @ + 1, ![b].call = 0]
         /\ UNCHANGED <<exc, forwarding, norm, deliveries, log_failures, schedulerVars, current_task, current_callback>>
         /\ cblog' = cblog
    ELSE /\ bgs' = [bgs EXCEPT ![b] = FreeBg]
         /\ ClearCurrent
         /\ cblog' = [cblog EXCEPT ![bgs[b].res.msg].done = TRUE]

\* The status code _execute_callback_with_retry takes as success.
CallbackOk(code) == code = 200

\* _execute_callback_with_retry: the answer of the POST.
execute_callback_response(b) ==
  /\ Responsive
  /\ bgs[b].pc = "wait"
  /\ cbh[bgs[b].call].pc = "done"
  /\ cbh' = [cbh EXCEPT ![bgs[b].call] = FreeCb]
  /\ IF CallbackOk(cbh[bgs[b].call].code)
       THEN /\ bgs' = [bgs EXCEPT ![b] = FreeBg]
            /\ ClearCurrent
            /\ cblog' = [cblog EXCEPT ![bgs[b].res.msg].ok = TRUE, ![bgs[b].res.msg].done = TRUE]
       ELSE CallbackRetry(b)
  /\ UNCHANGED <<exc, forwarding, norm, deliveries, log_failures, schedulerVars, iccVars, tq, dispVars, wreq, shutting_down, task_queue, result_queue,
                 bg_waiting, loop, in_infer, execs, accepted, cb_timeouts>>

\* _execute_callback_with_retry: the POST raises (timeout=30.0); the request
\* may still be handled by the gateway.
execute_callback_timeout(b) ==
  /\ Responsive
  /\ bgs[b].pc = "wait"
  /\ cbh' = [cbh EXCEPT ![bgs[b].call] =
               IF cbh[bgs[b].call].pc = "done" THEN FreeCb
               ELSE [cbh[bgs[b].call] EXCEPT !.waiting = FALSE]]
  /\ CallbackRetry(b)
  /\ cb_timeouts < MaxCallbackTimeouts
  /\ cb_timeouts' = cb_timeouts + 1
  /\ UNCHANGED <<exc, forwarding, norm, deliveries, log_failures, schedulerVars, iccVars, tq, dispVars, wreq, shutting_down, task_queue, result_queue,
                 bg_waiting, loop, in_infer, execs, accepted>>

\* ========================================================= environment
\* The dispatchers as the worker sees them: the envelope of task t, not POSTed
\* before, is POSTed to /api/v1/tasks, whatever the state of the worker.
env_post(t) ==
  /\ pubs[t] = 0
  /\ HasFree(wreq, RSlots)
  /\ pubs' = [pubs EXCEPT ![t] = @ + 1]
  /\ wreq' = [wreq EXCEPT ![FreeSlot(wreq, RSlots)] =
                [FreeReq EXCEPT !.pc = "sent", !.msg = [task |-> t, pub |-> pubs[t] + 1, callback |-> "internal"],
                                !.waiting = TRUE]]
  /\ UNCHANGED <<exc, forwarding, norm, deliveries, log_failures, schedulerVars, api, now, tss, tq, sub, cbh, ucalls, dispVars, workerVars>>

\* A client POSTs to /api/v1/tasks of the worker a task whose model_spec is null.
env_post_null_model_spec ==
  /\ accepted[NullSpecMsg] = 0
  /\ \A r \in RSlots : wreq[r].msg # NullSpecMsg
  /\ HasFree(wreq, RSlots)
  /\ wreq' = [wreq EXCEPT ![FreeSlot(wreq, RSlots)] =
                [FreeReq EXCEPT !.pc = "sent", !.msg = NullSpecMsg, !.waiting = TRUE]]
  /\ UNCHANGED <<exc, forwarding, norm, deliveries, log_failures, schedulerVars, iccVars, tq, cbh, dispVars, workerVars>>

\* The dispatcher that POSTed reads the answer.
env_response(r) ==
  /\ wreq[r].pc = "done"
  /\ wreq' = [wreq EXCEPT ![r] = FreeReq]
  /\ UNCHANGED <<exc, forwarding, norm, deliveries, log_failures, schedulerVars, iccVars, tq, cbh, dispVars, workerVars>>

\* The callback URL as the worker sees it: any status code may come back.
env_callback_answer(h, code) ==
  /\ cbh[h].pc = "sent"
  /\ cbh' = Answer(h, code)
  /\ UNCHANGED <<exc, forwarding, norm, deliveries, log_failures, schedulerVars, iccVars, tq, dispVars, wreq, workerVars>>

\* Another publisher of task_queue puts a body on it that is not an envelope.
env_publish_malformed ==
  /\ BadMsg \notin tq
  /\ disp.msg # BadMsg
  /\ tq' = tq \cup {BadMsg}
  /\ UNCHANGED <<exc, forwarding, norm, deliveries, log_failures, schedulerVars, iccVars, cbh, dispVars, wreq, workerVars>>

\* A client that does not hold the internal key POSTs an internal callback.
env_callback_post(t, st) ==
  /\ HasFree(cbh, Slots)
  /\ \A h \in Slots : cbh[h].key # "wrong"
  /\ cbh' = [cbh EXCEPT ![FreeSlot(cbh, Slots)] =
               [FreeCb EXCEPT !.pc = "sent", !.task = t, !.st = st, !.key = "wrong",
                              !.waiting = TRUE]]
  /\ UNCHANGED <<exc, forwarding, norm, deliveries, log_failures, schedulerVars, iccVars, tq, dispVars, wreq, workerVars>>

\* That client reads the answer.
env_callback_read(h) ==
  /\ cbh[h].pc = "done"
  /\ cbh[h].key = "wrong"
  /\ cbh' = [cbh EXCEPT ![h] = FreeCb]
  /\ UNCHANGED <<exc, forwarding, norm, deliveries, log_failures, schedulerVars, iccVars, tq, dispVars, wreq, workerVars>>

\* lifespan after the yield: set_shutting_down(True).
lifespan_shutdown ==
  /\ ~shutting_down
  /\ shutting_down' = TRUE
  /\ UNCHANGED <<exc, forwarding, norm, deliveries, log_failures, schedulerVars, iccVars, tq, cbh, dispVars, wreq, current_task, current_callback,
                 task_queue, result_queue, bg_waiting, bgs, loop, cb_timeouts, in_infer,
                 execs, cblog, accepted>>

\* ======================================================= specifications
\* The steps of the gateway other than the timeout branch of task_callback.
IccWithinDeadline ==
  \/ \E t \in SubmitTasks, cb \in BOOLEAN : create_task_publish(t, cb)
  \/ \E t \in SubmitTasks : create_task_persist(t)
  \/ \E h \in Slots : task_callback_get(h)
  \/ \E h \in Slots : task_callback_set_terminal(h)
  \/ \E h \in Slots : execute_user_callback(h)
  \/ \E h \in Slots : task_callback_delete(h)
  \/ \E h \in Slots : task_callback_retry_set(h)
  \/ \E h \in Slots : task_callback_retry_publish(h)

IccNext ==
  \/ IccWithinDeadline
  \/ \E h \in Slots : task_callback_timeout(h)

DispatcherNext ==
  \/ \E m \in Msgs : process_task_message_receive(m)
  \/ schedule_task_select
  \/ schedule_task_post
  \/ schedule_task_response
  \/ process_task_message_requeue
  \/ process_task_message_get
  \/ process_task_message_set

WorkerNext ==
  \/ \E r \in RSlots : receive_task_check(r)
  \/ \E r \in RSlots : receive_task_accept(r)
  \/ inference_worker_get
  \/ inference_worker_infer
  \/ \E st \in {"SUCCESS", "FAILED"} : inference_worker_result(st)
  \/ process_result_callback_get
  \/ \E b \in BSlots : process_result_callback_start(b)
  \/ \E b \in BSlots : execute_callback_post(b)
  \/ \E b \in BSlots : execute_callback_response(b)

\* The three services with every HTTP call answered in time.
Next == Tick \/ IccNext \/ DispatcherNext \/ WorkerNext

Spec == Init /\ [][Next]_vars

\* The three services, with result callbacks of the worker that time out while
\* the gateway is still handling them.
NextRepost == Next \/ \E b \in BSlots : execute_callback_timeout(b)

SpecRepost == Init /\ [][NextRepost]_vars

\* The three services within the deadline of the task, with the requests of
\* the submitter API.
ApiKeys == {"valid", "invalid"}

ApiNext ==
  \/ \E t \in SubmitTasks, key \in ApiKeys : create_task_unauthorized(t, key)
  \/ \E t \in SubmitTasks, key \in ApiKeys : get_task(t, key)
  \/ \E t \in SubmitTasks, key \in ApiKeys : get_task_status(t, key)
  \/ \E t \in SubmitTasks, key \in ApiKeys : get_task_result_get(t, key)
  \/ get_task_result_delete
  \/ \E t \in SubmitTasks, key \in ApiKeys : delete_task(t, key)

NextApi == IccWithinDeadline \/ DispatcherNext \/ WorkerNext \/ ApiNext

SpecApi == Init /\ [][NextApi]_vars

\* The three services within the deadline of the task, with internal
\* callbacks of a client that does not hold the internal key.
NextForged ==
  \/ IccWithinDeadline
  \/ DispatcherNext
  \/ WorkerNext
  \/ \E t \in SubmitTasks, st \in {"SUCCESS", "FAILED"} : env_callback_post(t, st)
  \/ \E h \in Slots : env_callback_read(h)

SpecForged == Init /\ [][NextForged]_vars

\* The three services, with submissions that fail.
NextSubmit ==
  \/ Next
  \/ \E t \in SubmitTasks : create_task_rejected(t)
  \/ \E t \in SubmitTasks : create_task_persist_fails(t)

SpecSubmit == Init /\ [][NextSubmit]_vars

\* Dispatcher and worker from the state create_task_josn leaves behind (record
\* stored, envelope published), with POSTs of the dispatcher that time out; the
\* callback URL is the environment.
InitDispatch ==
  /\ now = 0
  /\ tss = [t \in Tasks |->
              IF t \in SubmitTasks
                THEN [status |-> "PENDING", retry_count |-> 0, max_retries |-> MaxRetries,
                      result |-> FALSE, error |-> "null", last_error |-> FALSE,
                      callback |-> TRUE, created_at |-> 0, updated_at |-> 0]
                ELSE NoRec]
  /\ tq = {[task |-> t, pub |-> 1, callback |-> task_data(TRUE).callback] : t \in SubmitTasks}
  /\ pubs = [t \in Tasks |-> IF t \in SubmitTasks THEN 1 ELSE 0]
  /\ sub = [t \in Tasks |-> [pc |-> IF t \in SubmitTasks THEN "done" ELSE "new",
                             callback |-> t \in SubmitTasks, created_at |-> 0]]
  /\ cbh = [h \in Slots |-> FreeCb]
  /\ ucalls = [t \in Tasks |-> 0]
  /\ api = NoApi
  /\ disp = IdleDisp
  /\ post_timeouts = 0
  /\ wreq = [r \in RSlots |-> FreeReq]
  /\ current_task = NoMsg
  /\ current_callback = "none"
  /\ shutting_down = FALSE
  /\ task_queue = <<>>
  /\ result_queue = <<>>
  /\ bg_waiting = 0
  /\ bgs = [b \in BSlots |-> FreeBg]
  /\ loop = [pc |-> "get", msg |-> NoMsg]
  /\ cb_timeouts = 0
  /\ in_infer = 0
  /\ execs = [m \in WorkerMsgs |-> 0]
  /\ cblog = [m \in WorkerMsgs |-> NoLog]
  /\ accepted = [m \in WorkerMsgs |-> 0]
  /\ probes = {}
  /\ selected = "unset"
  /\ scheduler = Running
  /\ log_failures = {}
  /\ deliveries = [d \in Slots |-> NoDelivery]
  /\ norm = NoNorm
  /\ forwarding = NoForwarding
  /\ exc = NoException

NextDispatch ==
  \/ DispatcherNext
  \/ schedule_task_timeout
  \/ env_publish_malformed
  \/ process_task_message_malformed
  \/ process_task_message_error
  \/ WorkerNext
  \/ \E h \in Slots, code \in {200, 500} : env_callback_answer(h, code)

SpecDispatch == InitDispatch /\ [][NextDispatch]_vars

\* One worker under any sequence of POSTs and any answers to its callbacks.
NextWorker ==
  \/ \E t \in Tasks : env_post(t)
  \/ \E r \in RSlots : env_response(r)
  \/ \E h \in Slots, code \in {200, 500} : env_callback_answer(h, code)
  \/ lifespan_shutdown
  \/ WorkerNext

SpecWorker == Init /\ [][NextWorker]_vars

\* _select_forwarder alone, on every combination of probe results of the
\* forwarders Consul returns.  _get_supported_tasks gives whether the task type
\* is among the registered ones (a failed probe gives the empty list);
\* _get_forwarder_status gives (not busy, current_task, pending_tasks_count) of
\* the worker's /status, where busy is "current_task is not None", or
\* (False, None, 0) when the probe fails.
StatusProbe(f, supported, ok, busy, n) ==
  [id |-> f,
   supported |-> supported,
   is_idle |-> ok /\ ~busy,
   current_task |-> ok /\ busy,
   pending |-> IF ok THEN n ELSE 0]

ProbeInputs == BOOLEAN \X BOOLEAN \X BOOLEAN \X (0..MaxPending)

ProbeSets ==
  UNION {{{StatusProbe(f, inp[f][1], inp[f][2], inp[f][3], inp[f][4]) : f \in D} :
            inp \in [D -> ProbeInputs]} :
          D \in SUBSET Forwarders}

select_forwarder_call ==
  /\ selected = "unset"
  /\ selected' = select_forwarder(probes)
  /\ UNCHANGED <<exc, forwarding, norm, deliveries, log_failures, iccVars, tq, cbh, dispVars, wreq, workerVars, probes, scheduler>>

InitSelect ==
  /\ now = 0
  /\ tss = [t \in Tasks |-> NoRec]
  /\ tq = {}
  /\ pubs = [t \in Tasks |-> 0]
  /\ sub = [t \in Tasks |-> [pc |-> "new", callback |-> FALSE, created_at |-> 0]]
  /\ cbh = [h \in Slots |-> FreeCb]
  /\ ucalls = [t \in Tasks |-> 0]
  /\ api = NoApi
  /\ disp = IdleDisp
  /\ post_timeouts = 0
  /\ wreq = [r \in RSlots |-> FreeReq]
  /\ current_task = NoMsg
  /\ current_callback = "none"
  /\ shutting_down = FALSE
  /\ task_queue = <<>>
  /\ result_queue = <<>>
  /\ bg_waiting = 0
  /\ bgs = [b \in BSlots |-> FreeBg]
  /\ loop = [pc |-> "get", msg |-> NoMsg]
  /\ cb_timeouts = 0
  /\ in_infer = 0
  /\ execs = [m \in WorkerMsgs |-> 0]
  /\ cblog = [m \in WorkerMsgs |-> NoLog]
  /\ accepted = [m \in WorkerMsgs |-> 0]
  /\ probes \in ProbeSets
  /\ selected = "unset"
  /\ scheduler = Running
  /\ log_failures = {}
  /\ deliveries = [d \in Slots |-> NoDelivery]
  /\ norm = NoNorm
  /\ forwarding = NoForwarding
  /\ exc = NoException

NextSelect == select_forwarder_call

SpecSelect == InitSelect /\ [][NextSelect]_vars

\* Gateway and dispatcher for tasks of a type the worker has not registered.
NextUnsupported ==
  \/ Tick
  \/ \E t \in Tasks, cb \in BOOLEAN : create_task_publish(t, cb)
  \/ \E t \in Tasks : create_task_persist(t)
  \/ \E m \in Msgs : process_task_message_receive(m)
  \/ schedule_task_select_unsupported
  \/ process_task_message_requeue

SpecUnsupported == Init /\ [][NextUnsupported]_vars

\* Dispatcher and worker as in SpecDispatch, with the scheduler stopped by a
\* signal at any moment.
NextStop ==
  \/ DispatcherNext
  \/ schedule_task_timeout
  \/ WorkerNext
  \/ \E h \in Slots, code \in {200, 500} : env_callback_answer(h, code)
  \/ \E m \in Msgs : process_task_message_shutting_down(m)
  \/ stop_begin
  \/ stop_wait_done
  \/ stop_wait_expired
  \/ stop_disconnect

SpecStop == InitDispatch /\ [][NextStop]_vars

\* The three services within the deadline of the task, with the attempts of
\* _execute_user_callback one by one and a callback URL that may fail.
NextUserCallback ==
  \/ \E t \in SubmitTasks, cb \in BOOLEAN : create_task_publish(t, cb)
  \/ \E t \in SubmitTasks : create_task_persist(t)
  \/ \E h \in Slots : task_callback_get(h)
  \/ \E h \in Slots : task_callback_set_terminal(h)
  \/ \E h \in Slots, ok \in BOOLEAN : execute_user_callback_attempt(h, ok)
  \/ \E h \in Slots : task_callback_delete(h)
  \/ \E h \in Slots : task_callback_retry_set(h)
  \/ \E h \in Slots : task_callback_retry_publish(h)
  \/ DispatcherNext
  \/ WorkerNext

SpecUserCallback == Init /\ [][NextUserCallback]_vars

\* The happy path: one task submitted with a callback URL, the worker idle,
\* every inference a success, every HTTP call answered in time and within the
\* deadline.  Each service keeps running: a step of it that stays possible is
\* taken in the end.
IccHappy ==
  \/ \E t \in SubmitTasks : create_task_publish(t, TRUE)
  \/ \E t \in SubmitTasks : create_task_persist(t)
  \/ \E h \in Slots : task_callback_get(h)
  \/ \E h \in Slots : task_callback_set_terminal(h)
  \/ \E h \in Slots : execute_user_callback(h)
  \/ \E h \in Slots : task_callback_delete(h)

WorkerHappy ==
  \/ \E r \in RSlots : receive_task_check(r)
  \/ \E r \in RSlots : receive_task_accept(r)
  \/ inference_worker_get
  \/ inference_worker_infer
  \/ inference_worker_result("SUCCESS")
  \/ process_result_callback_get
  \/ \E b \in BSlots : process_result_callback_start(b)
  \/ \E b \in BSlots : execute_callback_post(b)
  \/ \E b \in BSlots : execute_callback_response(b)

\* The worker is idle, so no dispatch fails and nothing is requeued.
DispatcherHappy ==
  \/ \E m \in Msgs : process_task_message_receive(m)
  \/ schedule_task_select
  \/ schedule_task_post
  \/ schedule_task_response
  \/ process_task_message_get
  \/ process_task_message_set

NextHappy == IccHappy \/ DispatcherHappy \/ WorkerHappy

SpecHappy ==
  /\ Init
  /\ [][NextHappy]_vars
  /\ WF_vars(IccHappy)
  /\ WF_vars(DispatcherHappy)
  /\ WF_vars(WorkerHappy)

\* One worker, POSTs of a well-formed task and of a task whose model_spec is
\* null, and a callback URL that answers.  The event loop of the worker keeps
\* running its coroutines, and every request sent is answered.
WorkerSteps == WorkerNext \/ inference_worker_error

CallerSteps ==
  \/ \E r \in RSlots : env_response(r)
  \/ \E h \in Slots, code \in {200, 500} : env_callback_answer(h, code)

NextWorkerFair ==
  \/ \E t \in SubmitTasks : env_post(t)
  \/ env_post_null_model_spec
  \/ WorkerSteps
  \/ CallerSteps

SpecWorkerFair ==
  /\ Init
  /\ [][NextWorkerFair]_vars
  /\ WF_vars(WorkerSteps)
  /\ WF_vars(CallerSteps)

\* The three services within the deadline of the task, with log emissions
\* that succeed or raise.
LogEvents == {"gateway:task.published", "gateway:task.completed", "scheduler:task.received",
              "forwarder:task.received", "forwarder:inference.started"}

NextLogs ==
  \/ \E t \in SubmitTasks, cb \in BOOLEAN, ok \in BOOLEAN : create_task_publish_log(t, cb, ok)
  \/ \E t \in SubmitTasks : create_task_persist(t)
  \/ \E h \in Slots : task_callback_get(h)
  \/ \E h \in Slots, ok \in BOOLEAN : task_callback_set_terminal_log(h, ok)
  \/ \E h \in Slots : execute_user_callback(h)
  \/ \E h \in Slots : task_callback_delete(h)
  \/ \E h \in Slots : task_callback_retry_set(h)
  \/ \E h \in Slots : task_callback_retry_publish(h)
  \/ \E m \in Msgs, ok \in BOOLEAN : process_task_message_receive_log(m, ok)
  \/ schedule_task_select
  \/ schedule_task_post
  \/ schedule_task_response
  \/ process_task_message_requeue
  \/ process_task_message_get
  \/ process_task_message_set
  \/ \E r \in RSlots, ok \in BOOLEAN : receive_task_check_log(r, ok)
  \/ \E r \in RSlots : receive_task_accept(r)
  \/ \E ok \in BOOLEAN : inference_worker_get_log(ok)
  \/ inference_worker_infer
  \/ \E st \in {"SUCCESS", "FAILED"} : inference_worker_result(st)
  \/ process_result_callback_get
  \/ \E b \in BSlots : process_result_callback_start(b)
  \/ \E b \in BSlots : execute_callback_post(b)
  \/ \E b \in BSlots : execute_callback_response(b)

SpecLogs == Init /\ [][NextLogs]_vars

\* The consumer of task_queue as the broker sees it.  A message is delivered
\* to a new invocation of _process_task_message while fewer than
\* prefetch_count delivered messages are unsettled; the invocation settles its
\* message (ack after a successful _schedule_task, reject with requeue
\* otherwise) and, after an ack, goes on to the Redis update while the broker
\* is free to deliver the next message.
UnsettledDeliveries == {d \in Slots : deliveries[d].pc = "dispatch"}

\* Mutant: the broker delivers as long as an invocation slot is free.
PrefetchAllows_unlimited == TRUE

\* channel.set_qos(prefetch_count=1)
PrefetchAllows == Cardinality(UnsettledDeliveries) < PrefetchCount

consume_deliver(d, m) ==
  /\ PrefetchAllows
  /\ deliveries[d].pc = "free"
  /\ m \in tq
  /\ tq' = tq \ {m}
  /\ deliveries' = [deliveries EXCEPT ![d] = [pc |-> "dispatch", msg |-> m]]
  /\ UNCHANGED <<exc, forwarding, norm, log_failures, schedulerVars, iccVars, cbh, dispVars, wreq, workerVars>>

\* _schedule_task returned True: message.ack().
consume_ack(d) ==
  /\ deliveries[d].pc = "dispatch"
  /\ deliveries' = [deliveries EXCEPT ![d].pc = "update"]
  /\ UNCHANGED <<exc, forwarding, norm, log_failures, schedulerVars, iccVars, tq, cbh, dispVars, wreq, workerVars>>

\* _schedule_task returned False or something raised: message.reject(requeue=True).
consume_reject(d) ==
  /\ deliveries[d].pc = "dispatch"
  /\ tq' = tq \cup {deliveries[d].msg}
  /\ deliveries' = [deliveries EXCEPT ![d] = NoDelivery]
  /\ UNCHANGED <<exc, forwarding, norm, log_failures, schedulerVars, iccVars, cbh, dispVars, wreq, workerVars>>

\* After the ack: the record, when there is one, is stored as PROCESSING; the
\* invocation ends.
consume_update(d) ==
  /\ deliveries[d].pc = "update"
  /\ LET t == deliveries[d].msg.task IN
       tss' = IF tss[t].status = "ABSENT" THEN tss
              ELSE [tss EXCEPT ![t].status = "PROCESSING", ![t].updated_at = now]
  /\ deliveries' = [deliveries EXCEPT ![d] = NoDelivery]
  /\ UNCHANGED <<exc, forwarding, norm, log_failures, schedulerVars, api, now, pubs, sub, ucalls, tq, cbh, dispVars, wreq,
                 workerVars>>

NextConsume ==
  \/ Tick
  \/ \E t \in Tasks, cb \in BOOLEAN : create_task_publish(t, cb)
  \/ \E t \in Tasks : create_task_persist(t)
  \/ \E d \in Slots, m \in Msgs : consume_deliver(d, m)
  \/ \E d \in Slots : consume_ack(d)
  \/ \E d \in Slots : consume_reject(d)
  \/ \E d \in Slots : consume_update(d)

SpecConsume == Init /\ [][NextConsume]_vars

\* ================================================ payload normalization

\* A string leaf is a sequence of pieces of text:
\*   sp " ", http "http://minio/obj", data "data:", hdr ";base64,",
\*   QUJD "QUJD", LONG "QUJD" repeated 129 times.
Tokens == {"sp", "http", "data", "hdr", "QUJD", "LONG"}

\* len() of a piece.
TextLen(t) ==
  CASE t = "sp" -> 1 [] t = "http" -> 16 [] t = "data" -> 5
    [] t = "hdr" -> 8 [] t = "QUJD" -> 4 [] t = "LONG" -> 516

\* The characters of a piece that base64.b64decode(validate=False) keeps.
B64Chars(t) ==
  CASE t = "sp" -> 0 [] t = "http" -> 15 [] t = "data" -> 4
    [] t = "hdr" -> 6 [] t = "QUJD" -> 4 [] t = "LONG" -> 516

RECURSIVE SumOver(_, _)
SumOver(f, s) == IF s = <<>> THEN 0 ELSE f[Head(s)] + SumOver(f, Tail(s))

len(s) == SumOver([t \in Tokens |-> TextLen(t)], s)

\* b64decode raises unless the kept characters come in groups of four.
b64decode_ok(s) == SumOver([t \in Tokens |-> B64Chars(t)], s) % 4 = 0

\* b64_re: every character is of the base64 alphabet.
b64_re_match(s) == s # <<>> /\ \A i \in 1..Len(s) : s[i] \in {"QUJD", "LONG"}

RECURSIVE lstrip(_)
lstrip(s) == IF s # <<>> /\ Head(s) = "sp" THEN lstrip(Tail(s)) ELSE s

RECURSIVE rstrip(_)
rstrip(s) ==
  IF s # <<>> /\ s[Len(s)] = "sp" THEN rstrip(SubSeq(s, 1, Len(s) - 1)) ELSE s

strip(s) == rstrip(lstrip(s))

\* The URL MinioStore.upload_bytes returns.
upload_bytes == <<"http">>

\* _upload_bytes_from_base64: what replaces the leaf, and the uploads made.
upload_bytes_from_base64(raw_b64) ==
  IF b64decode_ok(raw_b64)
  THEN [out |-> upload_bytes, uploads |-> 1]
  ELSE [out |-> raw_b64, uploads |-> 0]

\* The hint of a leaf holds a media keyword.
MediaHint(key) == key = "image"

\* _walk on a string leaf.
walk(x, key) ==
  LET s == strip(x) IN
  IF s # <<>> /\ Head(s) = "http" THEN [out |-> s, uploads |-> 0]
  ELSE IF s # <<>> /\ Head(s) = "data" /\ \E i \in 1..Len(s) : s[i] = "hdr"
  THEN LET comma == CHOOSE i \in 1..Len(s) :
                      s[i] = "hdr" /\ \A j \in 1..(i - 1) : s[j] # "hdr"
       IN  upload_bytes_from_base64(SubSeq(s, comma + 1, Len(s)))
  ELSE IF len(s) > HeuristicMinLen /\ b64_re_match(s) /\ MediaHint(key)
  THEN upload_bytes_from_base64(s)
  ELSE [out |-> s, uploads |-> 0]

\* The payload {key: leaf} (list FALSE) or {key: [leaf, ...]} (list TRUE).
Leaves(n) == UNION {[1..k -> Tokens] : k \in 0..n}

Payloads ==
  [key : {"image", "prompt"}, list : {FALSE},
   items : {<<x>> : x \in Leaves(MaxTokens)}]
  \cup
  [key : {"image", "prompt"}, list : {TRUE},
   items : UNION {[1..k -> Leaves(MaxTokens - 3)] : k \in 0..MaxItems}]

\* _normalize_json_payload_to_minio, applied to the payload it last returned.
normalize_json_payload_to_minio ==
  /\ norm.passes < MaxPasses
  /\ LET items == norm.payload.items
         w == [i \in 1..Len(items) |-> walk(items[i], norm.payload.key)]
     IN  norm' = [payload |-> [norm.payload EXCEPT
                                 !.items = [i \in 1..Len(items) |-> w[i].out]],
                  uploads |-> SumOver([i \in 1..Len(items) |-> w[i].uploads],
                                      [i \in 1..Len(items) |-> i]),
                  passes  |-> norm.passes + 1]
  /\ UNCHANGED <<exc, forwarding, deliveries, log_failures, schedulerVars, iccVars, tq, cbh,
                 dispVars, wreq, workerVars>>

\* create_task_josn is handed a payload and normalizes it.
InitNormalize ==
  /\ now = 0
  /\ tss = [t \in Tasks |-> NoRec]
  /\ tq = {}
  /\ pubs = [t \in Tasks |-> 0]
  /\ sub = [t \in Tasks |-> [pc |-> "new", callback |-> FALSE, created_at |-> 0]]
  /\ cbh = [h \in Slots |-> FreeCb]
  /\ ucalls = [t \in Tasks |-> 0]
  /\ api = NoApi
  /\ disp = IdleDisp
  /\ post_timeouts = 0
  /\ wreq = [r \in RSlots |-> FreeReq]
  /\ current_task = NoMsg
  /\ current_callback = "none"
  /\ shutting_down = FALSE
  /\ task_queue = <<>>
  /\ result_queue = <<>>
  /\ bg_waiting = 0
  /\ bgs = [b \in BSlots |-> FreeBg]
  /\ loop = [pc |-> "get", msg |-> NoMsg]
  /\ cb_timeouts = 0
  /\ in_infer = 0
  /\ execs = [m \in WorkerMsgs |-> 0]
  /\ cblog = [m \in WorkerMsgs |-> NoLog]
  /\ accepted = [m \in WorkerMsgs |-> 0]
  /\ probes = {}
  /\ selected = "unset"
  /\ scheduler = Running
  /\ log_failures = {}
  /\ deliveries = [d \in Slots |-> NoDelivery]
  /\ norm \in [payload : Payloads, uploads : {0}, passes : {0}]
  /\ forwarding = NoForwarding
  /\ exc = NoException

NextNormalize == normalize_json_payload_to_minio

SpecNormalize == InitNormalize /\ [][NextNormalize]_vars

\* The three services within the deadline of the task, with the branch of
\* _select_forwarder and the worker's state at the POST kept.
DispatcherBranches ==
  \/ \E m \in Msgs : process_task_message_receive(m)
  \/ schedule_task_select_branch
  \/ schedule_task_post_sent
  \/ schedule_task_response
  \/ process_task_message_requeue
  \/ process_task_message_get
  \/ process_task_message_set

NextLowLoad == IccWithinDeadline \/ DispatcherBranches \/ WorkerNext

SpecLowLoad == Init /\ [][NextLowLoad]_vars

\* ============================================================ error codes

\* class ErrorCode(str, Enum): the member names.
ErrorCode ==
  {"INVALID_REQUEST", "INVALID_PARAMETER", "MISSING_PARAMETER", "INVALID_JSON",
   "RESOURCE_NOT_FOUND", "INTERNAL_ERROR", "UNAUTHORIZED", "INVALID_API_KEY",
   "MISSING_API_KEY", "FORBIDDEN", "INVALID_INTERNAL_KEY", "TASK_NOT_FOUND",
   "TASK_CREATE_FAILED", "TASK_TIMEOUT", "TASK_MAX_RETRIES", "TASK_ALREADY_EXISTS",
   "TASK_INVALID_STATUS", "TASK_PROCESSING", "TASK_FAILED", "INVALID_TASK_TYPE",
   "INVALID_MODEL_SPEC", "INVALID_PAYLOAD", "INVALID_CALLBACK", "INFERENCE_FAILED",
   "MODEL_NOT_FOUND", "MODEL_UNAVAILABLE", "FORWARDER_BUSY", "FORWARDER_NOT_FOUND",
   "INVALID_INFERENCE_PARAMS", "MODEL_API_ERROR", "STORAGE_ERROR",
   "MINIO_CONNECTION_FAILED", "MINIO_UPLOAD_FAILED", "MINIO_DOWNLOAD_FAILED",
   "MINIO_DELETE_FAILED", "MINIO_BUCKET_NOT_FOUND", "FILE_TOO_LARGE",
   "INVALID_FILE_FORMAT", "RABBITMQ_CONNECTION_FAILED", "RABBITMQ_PUBLISH_FAILED",
   "RABBITMQ_CONSUME_FAILED", "QUEUE_NOT_FOUND", "MESSAGE_INVALID",
   "CONSUL_CONNECTION_FAILED", "SERVICE_REGISTRATION_FAILED", "SERVICE_NOT_FOUND",
   "SERVICE_UNAVAILABLE", "LOG_WRITE_FAILED", "LOG_QUERY_FAILED",
   "POSTGRES_CONNECTION_FAILED", "REDIS_CONNECTION_FAILED", "REDIS_OPERATION_FAILED",
   "DATABASE_ERROR", "NETWORK_ERROR", "TIMEOUT_ERROR", "CONFIGURATION_ERROR",
   "SERVICE_SHUTDOWN"}

\* The dict literal, entry by entry, with the HTTP status as its number.
ERROR_CODE_TO_HTTP_STATUS ==
  <<<<"INVALID_REQUEST", 400>>, <<"INVALID_PARAMETER", 400>>, <<"MISSING_PARAMETER", 400>>,
    <<"INVALID_JSON", 400>>, <<"RESOURCE_NOT_FOUND", 404>>, <<"INTERNAL_ERROR", 500>>,
    <<"UNAUTHORIZED", 401>>, <<"INVALID_API_KEY", 401>>, <<"MISSING_API_KEY", 401>>,
    <<"FORBIDDEN", 403>>, <<"INVALID_INTERNAL_KEY", 401>>, <<"TASK_NOT_FOUND", 404>>,
    <<"TASK_CREATE_FAILED", 500>>, <<"TASK_TIMEOUT", 408>>, <<"TASK_MAX_RETRIES", 500>>,
    <<"TASK_ALREADY_EXISTS", 409>>, <<"TASK_INVALID_STATUS", 400>>,
    <<"TASK_PROCESSING", 202>>, <<"TASK_FAILED", 500>>, <<"INVALID_TASK_TYPE", 400>>,
    <<"INVALID_MODEL_SPEC", 400>>, <<"INVALID_PAYLOAD", 400>>, <<"INVALID_CALLBACK", 400>>,
    <<"INFERENCE_FAILED", 500>>, <<"MODEL_NOT_FOUND", 404>>, <<"MODEL_UNAVAILABLE", 503>>,
    <<"FORWARDER_BUSY", 503>>, <<"FORWARDER_NOT_FOUND", 404>>,
    <<"INVALID_INFERENCE_PARAMS", 400>>, <<"MODEL_API_ERROR", 502>>,
    <<"STORAGE_ERROR", 500>>, <<"MINIO_CONNECTION_FAILED", 503>>,
    <<"MINIO_UPLOAD_FAILED", 500>>, <<"MINIO_DOWNLOAD_FAILED", 500>>,
    <<"MINIO_DELETE_FAILED", 500>>, <<"MINIO_BUCKET_NOT_FOUND", 404>>,
    <<"FILE_TOO_LARGE", 413>>, <<"INVALID_FILE_FORMAT", 400>>,
    <<"RABBITMQ_CONNECTION_FAILED", 503>>, <<"RABBITMQ_PUBLISH_FAILED", 500>>,
    <<"RABBITMQ_CONSUME_FAILED", 500>>, <<"QUEUE_NOT_FOUND", 404>>,
    <<"MESSAGE_INVALID", 400>>, <<"CONSUL_CONNECTION_FAILED", 503>>,
    <<"SERVICE_REGISTRATION_FAILED", 500>>, <<"SERVICE_NOT_FOUND", 404>>,
    <<"SERVICE_UNAVAILABLE", 503>>, <<"LOG_WRITE_FAILED", 500>>,
    <<"LOG_QUERY_FAILED", 500>>, <<"POSTGRES_CONNECTION_FAILED", 503>>,
    <<"REDIS_CONNECTION_FAILED", 503>>, <<"REDIS_OPERATION_FAILED", 500>>,
    <<"DATABASE_ERROR", 500>>, <<"NETWORK_ERROR", 503>>, <<"TIMEOUT_ERROR", 408>>,
    <<"CONFIGURATION_ERROR", 500>>, <<"SERVICE_SHUTDOWN", 503>>>>

\* Mutant: the table without its last entry.
ERROR_CODE_TO_MESSAGE_incomplete ==
  <<<<"INVALID_REQUEST", "Invalid request">>>>

\* The dict literal, entry by entry.
ERROR_CODE_TO_MESSAGE ==
  <<<<"INVALID_REQUEST", "Invalid request">>, <<"INVALID_PARAMETER", "Invalid parameter">>,
    <<"MISSING_PARAMETER", "Missing required parameter">>,
    <<"INVALID_JSON", "Invalid JSON format">>,
    <<"RESOURCE_NOT_FOUND", "Resource not found">>,
    <<"INTERNAL_ERROR", "Internal server error">>, <<"UNAUTHORIZED", "Unauthorized">>,
    <<"INVALID_API_KEY", "Invalid API key">>, <<"MISSING_API_KEY", "Missing API key">>,
    <<"FORBIDDEN", "Forbidden">>,
    <<"INVALID_INTERNAL_KEY", "Invalid internal service key">>,
    <<"TASK_NOT_FOUND", "Task not found">>,
    <<"TASK_CREATE_FAILED", "Failed to create task">>, <<"TASK_TIMEOUT", "Task timeout">>,
    <<"TASK_MAX_RETRIES", "Task exceeded maximum retries">>,
    <<"TASK_ALREADY_EXISTS", "Task already exists">>,
    <<"TASK_INVALID_STATUS", "Invalid task status">>,
    <<"TASK_PROCESSING", "Task is still processing">>, <<"TASK_FAILED", "Task failed">>,
    <<"INVALID_TASK_TYPE", "Invalid task type">>,
    <<"INVALID_MODEL_SPEC", "Invalid model specification">>,
    <<"INVALID_PAYLOAD", "Invalid task payload">>,
    <<"INVALID_CALLBACK", "Invalid callback configuration">>,
    <<"INFERENCE_FAILED", "Model inference failed">>,
    <<"MODEL_NOT_FOUND", "Model not found">>, <<"MODEL_UNAVAILABLE", "Model unavailable">>,
    <<"FORWARDER_BUSY", "Model forwarder is busy">>,
    <<"FORWARDER_NOT_FOUND", "Model forwarder not found">>,
    <<"INVALID_INFERENCE_PARAMS", "Invalid inference parameters">>,
    <<"MODEL_API_ERROR", "Model API error">>, <<"STORAGE_ERROR", "Storage error">>,
    <<"MINIO_CONNECTION_FAILED", "Failed to connect to MinIO">>,
    <<"MINIO_UPLOAD_FAILED", "Failed to upload file to MinIO">>,
    <<"MINIO_DOWNLOAD_FAILED", "Failed to download file from MinIO">>,
    <<"MINIO_DELETE_FAILED", "Failed to delete file from MinIO">>,
    <<"MINIO_BUCKET_NOT_FOUND", "MinIO bucket not found">>,
    <<"FILE_TOO_LARGE", "File size exceeds limit">>,
    <<"INVALID_FILE_FORMAT", "Invalid file format">>,
    <<"RABBITMQ_CONNECTION_FAILED", "Failed to connect to RabbitMQ">>,
    <<"RABBITMQ_PUBLISH_FAILED", "Failed to publish message to RabbitMQ">>,
    <<"RABBITMQ_CONSUME_FAILED", "Failed to consume message from RabbitMQ">>,
    <<"QUEUE_NOT_FOUND", "Queue not found">>,
    <<"MESSAGE_INVALID", "Invalid message format">>,
    <<"CONSUL_CONNECTION_FAILED", "Failed to connect to Consul">>,
    <<"SERVICE_REGISTRATION_FAILED", "Failed to register service">>,
    <<"SERVICE_NOT_FOUND", "Service not found">>,
    <<"SERVICE_UNAVAILABLE", "Service unavailable">>,
    <<"LOG_WRITE_FAILED", "Failed to write log">>,
    <<"LOG_QUERY_FAILED", "Failed to query logs">>,
    <<"POSTGRES_CONNECTION_FAILED", "Failed to connect to PostgreSQL">>,
    <<"REDIS_CONNECTION_FAILED", "Failed to connect to Redis">>,
    <<"REDIS_OPERATION_FAILED", "Redis operation failed">>,
    <<"DATABASE_ERROR", "Database error">>, <<"NETWORK_ERROR", "Network error">>,
    <<"TIMEOUT_ERROR", "Request timeout">>,
    <<"CONFIGURATION_ERROR", "Configuration error">>,
    <<"SERVICE_SHUTDOWN", "Service is shutting down">>>>

\* dict.get(key, default) on a dict literal: the last entry of the key wins.
Entries(table, key) == {i \in DOMAIN table : table[i][1] = key}

get(table, key, default) ==
  IF Entries(table, key) = {} THEN default
  ELSE table[CHOOSE i \in Entries(table, key) : \A j \in Entries(table, key) : j <= i][2]

\* AIRouteException.__init__(error_code, message, details, http_status), run
\* once for the object: "message or ..." and "http_status or ..." take the table's value when the
\* argument is None, empty or 0.
AIRouteException_init(error_code, message, http_status) ==
  /\ ~exc.built
  /\ exc' = [built |-> TRUE,
             error_code |-> error_code,
             message |-> IF message # {} /\ message # {""}
                           THEN CHOOSE m \in message : TRUE
                           ELSE get(ERROR_CODE_TO_MESSAGE, error_code, "Unknown error"),
             http_status |-> IF http_status # {} /\ http_status # {0}
                               THEN CHOOSE h \in http_status : TRUE
                               ELSE get(ERROR_CODE_TO_HTTP_STATUS, error_code, 500),
             message_arg |-> message,
             http_status_arg |-> http_status]
  /\ UNCHANGED <<forwarding, norm, deliveries, log_failures, schedulerVars, iccVars, tq, cbh,
                 dispVars, wreq, workerVars>>

\* Exceptions built from every code, with and without overrides.
NextErrors ==
  \E error_code \in ErrorCode, message \in {{}, {""}, {"custom message"}},
     http_status \in {{}, {0}, {418}} :
    AIRouteException_init(error_code, message, http_status)

SpecErrors == Init /\ [][NextErrors]_vars

\* =============================================================== claims
Terminal == {"SUCCESS", "FAILED"}
Rank(st) == CASE st = "PENDING" -> 0 [] st = "PROCESSING" -> 1 [] OTHER -> 2

\* C1: the status values stored in TSS for a task only move forward along
\* PENDING, PROCESSING, {SUCCESS | FAILED}: no write replaces a stored status
\* by an earlier one, and a terminal status is never replaced by another status.
C1_StatusMonotone ==
  [][\A t \in Tasks :
       (tss[t].status # "ABSENT" /\ tss'[t].status # "ABSENT")
         => /\ Rank(tss[t].status) <= Rank(tss'[t].status)
            /\ (tss[t].status \in Terminal => tss'[t].status = tss[t].status)]_vars

\* C2: the submitter callback of a task is invoked at most once over the
\* task's life, also when the worker re-posts its internal callback.
C2_UserCallbackAtMostOnce == \A t \in Tasks : ucalls[t] <= 1

\* C3: a published envelope is executed at most once: no message enters
\* infer() twice, whatever the outcome of the dispatcher's POST.
C3_AtMostOneExecution == \A m \in Msgs : execs[m] <= 1

C5_RetryBound ==
  /\ \A t \in Tasks : tss[t].retry_count <= tss[t].max_retries
  /\ \A h \in Slots :
       cbh[h].old.retry_count = cbh[h].old.max_retries
         => /\ cbh[h].pc \notin {"retry_set", "retry_publish"}
            /\ cbh[h].rec.retry_count = cbh[h].old.retry_count

\* A FAILED callback is being handled on a record whose retries are used up.
C5_Witness ==
  \E h \in Slots :
    /\ cbh[h].pc = "failed_set"
    /\ cbh[h].st = "FAILED"
    /\ cbh[h].old.retry_count = MaxRetries

\* C6: for a task whose record is FAILED, the number of publishes of its
\* envelope equals retry_count + 1.
C6_PublishesMatchRetries ==
  \A t \in Tasks : tss[t].status = "FAILED" => pubs[t] = tss[t].retry_count + 1

\* C7: at most one task is inside infer() at any time.
C7_OneInference == in_infer <= 1

\* A task is inside infer() while another accepted task waits on task_queue.
C7_Witness == in_infer = 1 /\ task_queue # <<>>

\* C8: the worker never holds two accepted tasks whose result callback has not
\* finished: of two POSTs to an idle worker only one is accepted.
C8_OneAcceptedTask ==
  Cardinality({m \in Msgs : accepted[m] > 0 /\ ~cblog[m].done}) <= 1

\* C9: once the result callback of an accepted task has finished, at least one
\* POST was made for it, and no POST is made after one was answered with success.
C9_CallbackPosted ==
  \A m \in Msgs : (cblog[m].done => cblog[m].posts >= 1) /\ (cblog[m].ok => cblog[m].done)

\* C10: a handler of task_callback that loaded an already terminal record and
\* carries that same status changes nothing: not the TSS record, not TQ, and it
\* makes no submitter callback.
C10_RepostIsNoOp ==
  [][\A h \in Slots :
       (cbh[h].old.status \in Terminal /\ cbh[h].st = cbh[h].old.status /\ cbh'[h] # cbh[h])
         => (tss' = tss /\ tq' = tq /\ pubs' = pubs /\ ucalls' = ucalls)]_vars

\* C11: a FAILED internal callback handled on a record that is already SUCCESS
\* or FAILED does not take the retry branch: no publish to TQ follows from it
\* and the retry_count it writes is the one it loaded.
C11_NoRepublishAfterTerminal ==
  \A h \in Slots :
    (cbh[h].old.status \in Terminal /\ cbh[h].st = "FAILED")
      => /\ cbh[h].pc \notin {"retry_set", "retry_publish"}
         /\ cbh[h].rec.retry_count = cbh[h].old.retry_count

\* C12: the dispatcher settles every message it consumed exactly once: it acks
\* (and goes on to the record) if and only if the POST did not raise and the
\* answer it read is 200 or 201;
\* on any other answer, on a transport error, without a worker or after an
\* exception the message is back in TQ when the handler ends; an acked message
\* is never put back, and the handler keeps the message it consumed.
C12_SettledOnce ==
  [][/\ (disp.pc = "wait" /\ disp'.pc # "wait")
          => /\ disp'.pc \in {"get_task", "requeue"}
             /\ disp'.pc = "get_task"
                  <=> /\ post_timeouts' = post_timeouts
                      /\ wreq[disp.call].pc = "done"
                      /\ wreq[disp.call].code \in {200, 201}
     /\ (disp.pc \in {"select", "post"} /\ disp'.pc # disp.pc)
          => disp'.pc \in {"post", "wait", "requeue"}
     /\ (disp.pc \in {"requeue", "error"} /\ disp'.pc # disp.pc)
          => (disp'.pc = "idle" /\ disp.msg \in tq')
     /\ (disp.pc \in {"get_task", "set_task"})
          => (disp'.pc \in {"get_task", "set_task", "idle"} /\ disp.msg \notin tq')
     /\ (disp.pc # "idle" /\ disp'.pc # "idle") => disp'.msg = disp.msg
     /\ (disp.pc = "idle" /\ disp'.pc # "idle") => (disp'.msg \in tq /\ disp'.msg \notin tq')]_vars

\* A message is acked after a POST of the dispatcher had raised and its
\* message was put back.
C12_Witness == disp.pc = "get_task" /\ post_timeouts > 0

\* C13: a message whose body cannot be parsed is rejected without requeue: when
\* its handler ends, the message is not in TQ again.
C13_MalformedDropped ==
  [][(disp.pc = "error" /\ disp.msg = BadMsg /\ disp'.pc = "idle") => BadMsg \notin tq']_vars

\* C14: the record of a task is stored in TSS before its envelope is published:
\* whenever an envelope of a submitted task has been published, create_task_josn
\* has already written the task's record.
C14_PersistBeforePublish ==
  \A t \in SubmitTasks : pubs[t] > 0 => sub[t].pc = "done"

\* C15: when a submission has failed, no record of the task was written to TSS
\* and no envelope of it was published to TQ.
C15_FailedSubmitWritesNothing ==
  \A t \in SubmitTasks : sub[t].pc = "failed" => (pubs[t] = 0 /\ tss[t].status = "ABSENT")

\* The envelopes in TQ, at the dispatcher and at the worker.
EnvelopesInFlight ==
  tq \cup {disp.msg, current_task, loop.msg}
     \cup {wreq[r].msg : r \in RSlots}
     \cup {task_queue[i] : i \in 1..Len(task_queue)}

\* C16: every envelope, of the submission and of every retry, names the
\* internal callback endpoint; the callback of the submitter is in no envelope
\* in TQ, at the dispatcher or at the worker.
C16_InternalCallbackOnly ==
  \A m \in EnvelopesInFlight : m \in Msgs => m.callback = "internal"

\* The envelope of a task submitted with a callback has been re-published.
C16_Witness ==
  \E m \in EnvelopesInFlight : m \in Msgs /\ m.pub >= 2 /\ tss[m.task].callback

\* C17: when a handler of task_callback ends a branch that made the task
\* terminal (SUCCESS, or FAILED with the retries used up), the record of the
\* task is no longer in TSS, with or without a submitter callback.
C17_TerminalRecordDeleted ==
  [][\A h \in Slots :
       (cbh[h].pc \in {"success_set", "failed_set", "terminal_delete"}
          /\ cbh'[h].pc \in {"done", "free"})
         => tss'[cbh[h].task].status = "ABSENT"]_vars

\* C18: a FAILED callback within the deadline on a record with retry_count <
\* max_retries takes the retry branch: the record it persists has the loaded
\* retry_count plus one, last_error set and the loaded status; it then
\* publishes one envelope of the same task; it neither deletes the record nor
\* invokes the submitter callback.
C18_RetryPath ==
  [][\A h \in Slots :
       LET t == cbh[h].task IN
       /\ (/\ cbh[h].pc = "sent"
           /\ cbh'[h].pc # "sent"
           /\ cbh[h].st = "FAILED"
           /\ tss[t].status # "ABSENT"
           /\ now - tss[t].created_at <= TaskMaxWaitTime
           /\ tss[t].retry_count < tss[t].max_retries)
            => /\ cbh'[h].pc = "retry_set"
               /\ cbh'[h].rec.retry_count = tss[t].retry_count + 1
               /\ cbh'[h].rec.last_error
               /\ cbh'[h].rec.status = tss[t].status
               /\ cbh'[h].rec.error = tss[t].error
       /\ (cbh[h].pc = "retry_set" /\ cbh'[h].pc # "retry_set")
            => /\ cbh'[h].pc = "retry_publish"
               /\ tss'[t] = cbh[h].rec
               /\ pubs' = pubs /\ tq' = tq /\ ucalls' = ucalls
       /\ (cbh[h].pc = "retry_publish" /\ cbh'[h].pc # "retry_publish")
            => /\ cbh'[h].pc \in {"done", "free"}
               /\ pubs'[t] = pubs[t] + 1
               /\ \E m \in Msgs : m.task = t /\ m \notin tq /\ tq' = tq \cup {m}
               /\ tss' = tss /\ ucalls' = ucalls]_vars

\* A handler on the retry path has persisted the count of the first retry and
\* is about to publish.
C18_Witness ==
  \E h \in Slots : cbh[h].pc = "retry_publish" /\ tss[cbh[h].task].retry_count = 1

\* C19: when a handler ends the branch of a FAILED callback on a record whose
\* retries are used up, for a task submitted with a callback, the envelope of
\* the task has been published max_retries + 1 times, the error of the record
\* is the max-retries error, the submitter was notified once and the record is
\* deleted.
C19_RetriesExhausted ==
  [][\A h \in Slots :
       (/\ cbh[h].pc = "terminal_delete"
        /\ cbh[h].st = "FAILED"
        /\ cbh[h].rec.callback
        /\ cbh'[h].pc \in {"done", "free"})
         => /\ pubs[cbh[h].task] = cbh[h].rec.max_retries + 1
            /\ cbh[h].rec.error = "max_retries"
            /\ ucalls'[cbh[h].task] = 1
            /\ tss'[cbh[h].task].status = "ABSENT"]_vars

\* C20: in every record stored in TSS, result is set if and only if the status
\* is SUCCESS, and error is set if and only if the status is FAILED.
C20_ResultErrorMatchStatus ==
  \A t \in Tasks :
    tss[t].status # "ABSENT"
      => /\ tss[t].result <=> tss[t].status = "SUCCESS"
         /\ tss[t].error # "null" <=> tss[t].status = "FAILED"

C22_Delete ==
  [][(api'.op = "delete" /\ api' # api)
       => IF tss[api'.task].status = "ABSENT"
            THEN api'.code = 404 /\ tss' = tss
            ELSE api'.code = 200 /\ tss'[api'.task].status = "ABSENT"]_vars

\* C23: an internal callback whose Authorization header is not the internal
\* key is answered 401 in the step that handles it, and that step changes
\* neither TSS nor TQ and makes no submitter callback.
C23_Unauthorized ==
  [][\A h \in Slots :
       (cbh[h].pc = "sent" /\ cbh[h].key # "internal" /\ cbh'[h] # cbh[h])
         => /\ cbh'[h].pc = "done"
            /\ cbh'[h].code = 401
            /\ tss' = tss /\ tq' = tq /\ pubs' = pubs /\ ucalls' = ucalls]_vars

\* A callback with a wrong key was answered 401 while the record of its task,
\* with retries left, is in TSS.
C23_Witness ==
  \E h \in Slots :
    /\ cbh[h].pc = "done" /\ cbh[h].key = "wrong" /\ cbh[h].code = 401
    /\ tss[cbh[h].task].status \in {"PENDING", "PROCESSING"}

\* C24: a request of the submitter API whose bearer token is not a configured
\* API key is answered 401 and goes no further: it neither reads out nor
\* deletes a record.
C24_ApiKeyRequired ==
  (api.pc # "idle" /\ ~verify_api_key(api.key)) => (api.pc = "done" /\ api.code = 401)

\* C25: worker selection returns, among the workers that support the type and
\* whose probes answered, an idle worker with the smallest pending count when
\* there is an idle one; otherwise a busy worker with pending count at most
\* scheduler_task_max_count and the smallest pending count; it returns no
\* worker exactly when neither kind exists; a worker that does not support the
\* type or whose probe failed is never returned.
C25_Idle == {p \in probes : p.supported /\ p.is_idle}
C25_LowLoad ==
  {p \in probes : p.supported /\ p.current_task /\ p.pending <= SchedulerTaskMaxCount}
C25_Least(cs) == {p \in cs : \A q \in cs : p.pending <= q.pending}
C25_Selection ==
  selected # "unset" =>
    /\ C25_Idle # {} => selected \in {p.id : p \in C25_Least(C25_Idle)}
    /\ (C25_Idle = {} /\ C25_LowLoad # {}) => selected \in {p.id : p \in C25_Least(C25_LowLoad)}
    /\ selected = "none" <=> (C25_Idle = {} /\ C25_LowLoad = {})
    /\ \A p \in probes :
         (~p.supported \/ (~p.is_idle /\ ~p.current_task)) => selected # p.id

\* A busy worker within the limit is selected although another worker is idle
\* but does not support the type, a third is busy above the limit.
C25_Witness ==
  /\ selected \in Forwarders
  /\ \E p \in probes : p.id = selected /\ p.current_task /\ p.pending > 0
  /\ \E q \in probes : q.is_idle /\ ~q.supported
  /\ \E q \in probes : q.supported /\ q.current_task /\ q.pending > SchedulerTaskMaxCount

\* C26: for a task whose type the worker does not support, every delivery of
\* its message ends in a reject with requeue, so the message stays in TQ (or
\* in the hands of the dispatcher between delivery and reject); the task is
\* never POSTed to the worker; the dispatcher never changes the TSS record.
C26_UnsupportedStaysQueued ==
  /\ [](\A t \in Tasks :
          pubs[t] > 0 => \E m \in tq \cup {disp.msg} : m.task = t)
  /\ [](\A r \in RSlots : wreq[r] = FreeReq)
  /\ [][disp' # disp =>
          /\ disp.pc = "select" => disp'.pc = "requeue"
          /\ disp.pc = "requeue" => (disp.msg \in tq' /\ disp' = IdleDisp)
          /\ tss' = tss]_vars

\* A message of a stored task has gone through selection and is about to be
\* rejected with requeue.
C26_Witness ==
  /\ disp.pc = "requeue"
  /\ disp.forwarder = "none"
  /\ tss[disp.msg.task].status = "PENDING"
  /\ now > 0

\* C27: once shutting_down of the dispatcher is set, a message delivered is
\* rejected with requeue: no dispatch starts, nothing is forwarded and TSS is
\* not written for it; and the broker connection is closed only when the
\* dispatch that was in flight has acked or rejected its message.
C27_GracefulStop ==
  /\ [][(scheduler.shutting_down /\ disp.pc = "idle") =>
          (disp' = disp /\ (scheduler' # scheduler => (tss' = tss /\ wreq' = wreq /\ tq' = tq)))]_vars
  /\ [][(scheduler.pc # "stopped" /\ scheduler'.pc = "stopped") =>
          disp.pc \notin Unsettled]_vars

\* C30: the callback to the submitter is one POST followed by at most 3
\* retries; it stops at the first 2xx answer; every failed attempt brings the
\* loop nearer to its end, so it terminates; and no attempt, failed or not,
\* changes the task's TSS record.
C30_UserCallbackBounded ==
  /\ [](\A h \in Slots :
          /\ cbh[h].posted <= 1 + 3
          /\ cbh[h].pc = "user_callback" => (~cbh[h].ok /\ cbh[h].retry_count <= 3))
  /\ [][\A h \in Slots :
          /\ cbh'[h].posted > cbh[h].posted => ~cbh[h].ok
          /\ (cbh[h].pc = "user_callback" /\ cbh'[h] # cbh[h]) =>
               /\ tss' = tss
               /\ cbh'[h].pc = "user_callback" => cbh'[h].retry_count = cbh[h].retry_count + 1
               /\ cbh'[h].pc # "user_callback" => (cbh'[h].ok \/ cbh'[h].posted = 1 + 3)]_vars

\* Every attempt failed: four POSTs, none answered 2xx, and the record is
\* still the terminal one task_callback stored.
C30_Witness ==
  \E h \in Slots :
    /\ cbh[h].pc = "terminal_delete"
    /\ cbh[h].posted = 4
    /\ ~cbh[h].ok
    /\ tss[cbh[h].task] = cbh[h].rec
    /\ tss[cbh[h].task].status \in {"SUCCESS", "FAILED"}

\* C28: on the happy path, under fair scheduling, the submission stores the
\* record as PENDING when it answers 201, the callback URL of the submitter
\* receives exactly one POST, with status SUCCESS, and once the record has
\* been deleted after that POST it stays absent, so that GET answers 404.
C28_HappyPath ==
  /\ [][(sub["t1"].pc # "done" /\ sub'["t1"].pc = "done") => tss'["t1"].status = "PENDING"]_vars
  /\ [](ucalls["t1"] <= 1)
  /\ [](\A h \in Slots : cbh[h].pc = "user_callback" => cbh[h].st = "SUCCESS")
  /\ [][(ucalls["t1"] = 1 /\ tss["t1"].status = "ABSENT") => tss'["t1"].status = "ABSENT"]_vars
  /\ <>(ucalls["t1"] = 1 /\ tss["t1"].status = "ABSENT")

\* C29: every task the worker accepts leaves it idle again in the end:
\* whenever current_task is set, a later state has current_task and
\* current_callback cleared; a worker with no coroutine waiting for a result
\* and no callback in progress is idle.
C29_WorkerIdleAgain ==
  /\ (current_task # NoMsg) ~> (current_task = NoMsg /\ current_callback = "none")
  /\ []((bg_waiting = 0 /\ \A b \in BSlots : bgs[b] = FreeBg) => current_task = NoMsg)

\* C31: a log emission that raises changes nothing in the data plane: the step
\* of submission, callback handling, dispatch or worker in which it happens
\* goes on exactly as with a successful emission (envelope published and the
\* handler on its way to the TSS write, terminal record stored and the handler
\* on its way to the user callback or its 200 answer, message on its way to
\* selection, request on its way to acceptance, task on its way to infer()).
C31_LogFailureHarmless ==
  [][log_failures' # log_failures =>
       /\ \A t \in Tasks :
            sub'[t] # sub[t] => (sub'[t].pc = "published" /\ pubs'[t] = pubs[t] + 1 /\ tq' # tq)
       /\ \A h \in Slots :
            cbh'[h] # cbh[h] =>
              /\ tss'[cbh[h].task] = cbh[h].rec
              /\ IF cbh[h].rec.callback
                   THEN cbh'[h].pc = "user_callback"
                   ELSE cbh'[h].pc = "done" /\ cbh'[h].code = 200
       /\ disp' # disp => (disp'.pc = "select" /\ disp'.msg \in tq /\ disp'.msg \notin tq')
       /\ \A r \in RSlots : wreq'[r] # wreq[r] => wreq'[r].pc = "log"
       /\ loop' # loop => (loop'.pc = "log" /\ loop'.msg = Head(task_queue))]_vars

\* Every kind of log emission has raised and the task went its whole way:
\* one callback to the submitter, record deleted.
C31_Witness ==
  /\ log_failures = LogEvents
  /\ ucalls["t1"] = 1
  /\ sub["t1"].pc = "done"
  /\ tss["t1"].status = "ABSENT"

\* C32: the dispatcher never holds more than one message that is delivered
\* but neither acked nor rejected, so at most one task is being dispatched.
C32_OneUnsettled == Cardinality(UnsettledDeliveries) <= 1

\* The next message is being dispatched while the invocation that acked the
\* one before is still at its Redis update.
C32_Witness ==
  \E d \in Slots, e \in Slots :
    /\ deliveries[d].pc = "dispatch"
    /\ deliveries[e].pc = "update"
    /\ deliveries[d].msg.task # deliveries[e].msg.task

\* A leaf _walk classifies as media data: a data URI or heuristic base64.
MediaData(x, key) ==
  LET s == strip(x) IN
  \/ s # <<>> /\ Head(s) = "data" /\ \E i \in 1..Len(s) : s[i] = "hdr"
  \/ len(s) > HeuristicMinLen /\ b64_re_match(s) /\ MediaHint(key)

MediaLeavesAreUrls(p) == \A i \in 1..Len(p.items) : ~MediaData(p.items[i], p.key)

\* Normalizing the output of a normalization returns an equal structure.
C33_SecondPassEqual ==
  [][(norm' # norm /\ norm.passes >= 1) => norm'.payload = norm.payload]_vars

\* Normalizing the output of a normalization uploads nothing.
C33_NoFurtherUpload ==
  [][(norm' # norm /\ norm.passes >= 1) => norm'.uploads = 0]_vars

\* A payload whose media leaves are already URLs is returned equal.
C33_UrlsReturnedEqual ==
  [][(norm' # norm /\ MediaLeavesAreUrls(norm.payload))
       => norm'.payload = norm.payload]_vars

\* Normalization keeps the map keys and the list lengths.
C33_SameShape ==
  [][norm' # norm =>
       /\ norm'.payload.key = norm.payload.key
       /\ norm'.payload.list = norm.payload.list
       /\ Len(norm'.payload.items) = Len(norm.payload.items)]_vars

\* C33: payload normalization is idempotent: normalizing the output of a
\* normalization returns an equal structure and uploads nothing further, and a
\* payload whose media leaves are already http(s) URLs is returned equal, with
\* the same map keys and list lengths.
C33_Idempotent ==
  [][norm' # norm =>
       /\ norm.passes >= 1 => (norm'.payload = norm.payload /\ norm'.uploads = 0)
       /\ MediaLeavesAreUrls(norm.payload) => norm'.payload = norm.payload
       /\ norm'.payload.key = norm.payload.key
       /\ norm'.payload.list = norm.payload.list
       /\ Len(norm'.payload.items) = Len(norm.payload.items)]_vars

\* C34: once the gateway has deleted the record of a task that was stored, no
\* later step of any component writes a record for that task again; the
\* read-then-write PROCESSING upgrade of the dispatcher, interleaved with the
\* delete, does not re-create it.
C34_NoRecreation ==
  [][\A t \in Tasks :
       (sub[t].pc = "done" /\ tss[t].status = "ABSENT")
         => tss'[t].status = "ABSENT"]_vars

\* C35: the PROCESSING upgrade of the dispatcher changes only status and
\* updated_at of the record: the retry_count, last_error, result and error the
\* gateway stored are still in the record after the dispatcher's write.
C35_UpgradeFrame ==
  [][(disp.pc = "set_task" /\ disp' = IdleDisp
        /\ tss[disp.msg.task].status # "ABSENT")
       => LET old == tss[disp.msg.task]
              new == tss'[disp.msg.task]
          IN  /\ new.retry_count = old.retry_count
              /\ new.last_error = old.last_error
              /\ new.result = old.result
              /\ new.error = old.error]_vars

\* C36: the retry_count stored for a task never decreases over the task's
\* life, so the task is re-published at most max_retries times in total.
C36_RetryCountMonotone ==
  [][\A t \in Tasks :
       /\ (tss[t].status # "ABSENT" /\ tss'[t].status # "ABSENT")
            => tss'[t].retry_count >= tss[t].retry_count
       /\ pubs'[t] <= 1 + MaxRetries]_vars

\* The depth of the worker's task channel never exceeds 1.
C37_DepthAtMostOne == Len(task_queue) <= 1

\* While the channel is non-empty or a task is inside infer(), /status reports
\* busy (current_task is set).
C37_BusyWhileWorking == (task_queue # <<>> \/ in_infer > 0) => current_task # NoMsg

\* C37: the depth of the worker's task channel (pending_tasks_count of /status)
\* never exceeds 1, and whenever the channel is non-empty or a task is inside
\* the inference function, /status reports busy = true.
C37_ChannelDepth ==
  /\ Len(task_queue) <= 1
  /\ (task_queue # <<>> \/ in_infer > 0) => current_task # NoMsg

\* The result packet is posted to the callback descriptor that was supplied
\* with the task of the packet.
C38_PostedToOwnCallback ==
  \A b \in BSlots : bgs[b].pc \in {"post", "wait"} => bgs[b].cb = bgs[b].res.msg.task

\* current_task is cleared only by the result callback of that task, after its
\* result was posted.
C38_ClearedForPostedTask ==
  [][(current_task # NoMsg /\ current_task' = NoMsg)
       => \E b \in BSlots :
            /\ bgs[b].pc # "free"
            /\ bgs'[b] = FreeBg
            /\ bgs[b].res.msg.task = current_task.task
            /\ cblog'[bgs[b].res.msg].posts >= 1]_vars

\* C38: the result packet a worker posts goes to the callback descriptor that
\* was supplied with the same task, and current_task is cleared only for the
\* task whose result was posted.
C38_ResultToOwnCallback ==
  /\ [](\A b \in BSlots :
          bgs[b].pc \in {"post", "wait"} => bgs[b].cb = bgs[b].res.msg.task)
  /\ [][(current_task # NoMsg /\ current_task' = NoMsg)
          => \E b \in BSlots :
               /\ bgs[b].pc # "free"
               /\ bgs'[b] = FreeBg
               /\ bgs[b].res.msg.task = current_task.task
               /\ cblog'[bgs[b].res.msg].posts >= 1]_vars

\* A task forwarded to a worker selected as low-load is never accepted.
C39_LowLoadNeverAccepted ==
  [][\A r \in RSlots :
       (disp.pc = "wait" /\ disp.call = r /\ wreq[r].pc = "log"
          /\ wreq'[r].pc = "done" /\ wreq'[r].code = 200)
         => ~forwarding.low_load]_vars

\* A task is accepted only by a worker that was idle when the POST was sent.
C39_AcceptedByIdleAtPost ==
  [][\A r \in RSlots :
       (disp.pc = "wait" /\ disp.call = r /\ wreq[r].pc = "log"
          /\ wreq'[r].pc = "done" /\ wreq'[r].code = 200)
         => ~forwarding.busy_at_post]_vars

\* C39: a task forwarded to a worker that the dispatcher selected as low-load
\* (busy with pending_count <= scheduler_task_max_count) is never accepted: a
\* task is only ever accepted by a worker that was idle at the moment of the
\* POST.
C39_LowLoadRefused ==
  [][\A r \in RSlots :
       (disp.pc = "wait" /\ disp.call = r /\ wreq[r].pc = "log"
          /\ wreq'[r].pc = "done" /\ wreq'[r].code = 200)
         => (~forwarding.low_load /\ ~forwarding.busy_at_post)]_vars

\* C40: the error-code tables are total: every member of ErrorCode has exactly
\* one HTTP status and exactly one message, and an AIRouteException built from
\* any code without overrides gets that status and that message.
C40_TablesTotal ==
  /\ \A c \in ErrorCode :
       /\ Cardinality(Entries(ERROR_CODE_TO_HTTP_STATUS, c)) = 1
       /\ Cardinality(Entries(ERROR_CODE_TO_MESSAGE, c)) = 1
  /\ (exc.built /\ exc.http_status_arg = {})
       => \E i \in DOMAIN ERROR_CODE_TO_HTTP_STATUS :
            ERROR_CODE_TO_HTTP_STATUS[i] = <<exc.error_code, exc.http_status>>
  /\ (exc.built /\ exc.message_arg = {})
       => \E i \in DOMAIN ERROR_CODE_TO_MESSAGE :
            ERROR_CODE_TO_MESSAGE[i] = <<exc.error_code, exc.message>>

\* An exception built from TIMEOUT_ERROR alone carries 408 and the table's text.
C40_Witness ==
  /\ exc.built
  /\ exc.message_arg = {}
  /\ exc.http_status_arg = {}
  /\ exc.error_code = "TIMEOUT_ERROR"
  /\ exc.http_status = 408
  /\ exc.message = "Request timeout"

====
